---------------------------- MODULE Spec2Model ----------------------------
(***************************************************************************)
(* SealProof / TruthChain Move contracts as state machines.                *)
(*                                                                         *)
(*   verification_network.move  - staked verifiers, weighted voting tasks  *)
(*   truth_oracle.move          - AI oracles, weighted detection consensus *)
(*   access_control.move        - access policies and grants               *)
(*   provenance_registry.move   - content proofs and their trust score     *)
(*                                                                         *)
(* Every entry function is one atomic transaction: either all of its       *)
(* assertions pass and its writes are applied, or it aborts with the code  *)
(* of the first failing assertion and writes nothing.  For each entry      *)
(* function f, the operator fAbort gives the abort code of a call in the   *)
(* current state (OK when the call commits) and the action f is the        *)
(* committed call; an aborted call leaves every object as it was.          *)
(*                                                                         *)
(* Move's u64 arithmetic aborts on overflow; the amounts of the model are  *)
(* kept far below 2^64 by the bounds on the inputs, so no such abort is    *)
(* reachable here.  Objects are presented to an entry function by any      *)
(* sender: the checks on the sender are those the functions make.          *)
(* Fields that are written and never read by any function (registration,   *)
(* creation, last_active and last_updated timestamps, the requester of a   *)
(* task, free-form strings, the submitted confidence of a detection, the   *)
(* access window and require_verification flag of a policy, the            *)
(* AccessRequest objects) are left out of the objects.                     *)
(***************************************************************************)
EXTENDS Integers, FiniteSets, Sequences, TLC

VARIABLES
    now,        \* sui::clock timestamp; the verifier network and the oracle
                \* registry count it in units of 12 hours
    network,    \* verification_network::VerificationNetwork (shared object)
    verifiers,  \* verification_network::Verifier objects, by registering address
    tasks,      \* verification_network::VerificationTask objects, by task id
    registry,   \* truth_oracle::OracleRegistry (shared object)
    oracles,    \* truth_oracle::AIOracle objects, by registering address
    results,    \* truth_oracle::DetectionResult objects, by result id
    accessRegistry,   \* access_control::AccessRegistry (shared object)
    policies,   \* access_control::AccessPolicy objects, by content id
    grants,     \* access_control::AccessGrant objects, in creation order
    contentRegistry,  \* provenance_registry::Registry (shared object)
    proofs,     \* provenance_registry::ContentProof objects, in creation order
    transferCaps  \* provenance_registry::TransferCap objects, by cap id

varsVN == <<network, verifiers, tasks>>
varsTO == <<registry, oracles, results>>
varsAC == <<accessRegistry, policies, grants>>
varsPR == <<contentRegistry, proofs, transferCaps>>
vars == <<now, varsVN, varsTO, varsAC, varsPR>>

--------------------------------------------------------------------------
(* Bounds of the model *)

\* addresses that send transactions
Addr == {"a1", "a2"}

\* ids of the VerificationTask objects created
TaskIds == {"t1"}

\* the clock of the verifier network stops here
MaxClockVN == 3

\* largest stake a Verifier object is let to hold
MaxStake == 20

\* largest balance the reward pool is let to hold
MaxPool == 13

\* claim_reward calls counted per verifier
MaxVerifications == 1

\* in SpecClaim claim_reward is called this often by a verifier
MaxClaims == 3

\* claim_reward calls each verifier has behind it where SpecRep starts
MaxHistory == 90

\* claim_reward calls counted per verifier after that
MaxClaimsRep == 3

\* in SpecUpd update_oracle_reputation is followed while the oracle's
\* reputation is less than this away from the weight of its submission, and
\* while its accurate submissions are no more than its submissions
MaxDriftRep == 31

\* clock units (of 12 hours) between two transactions of SpecRep that are a
\* decay period apart
ClockStepRep == 60

\* the clock of SpecRep stops here
MaxClockRep == 120

\* addresses that register as oracles
OracleAddr == {"o1", "o2", "o3"}

\* ids of the DetectionResult objects created
ResultIds == {"r1"}

\* the clock of the oracle registry stops here
MaxClockTO == 210

\* clock units between two transactions of the oracle registry
ClockStepTO == 210

\* update_oracle_reputation is followed while the oracle's reputation is
\* less than this away from the weight of its submission
MaxDrift == 10

\* ids of the content an AccessPolicy is created for
ContentIds == {"c1", "c2"}

\* ids of the AccessGrant objects created, in the order of their creation
GrantIds == {1}

\* in SpecGrant this many grants are issued
MaxGrants == 2

\* the clock of the access registry stops here
MaxClockAC == 1

\* record_verification calls counted per ContentProof
MaxVerificationCount == 1

\* in SpecTrust a content proof receives this many verification reports
MaxReports == 3

\* the clock of the provenance registry stops here
MaxClockPR == 1

OK == "OK"

\* table / object store: f with key k bound to val
Put(f, k, val) == [x \in DOMAIN f \cup {k} |-> IF x = k THEN val ELSE f[x]]

--------------------------------------------------------------------------
(* verification_network.move *)

E_NOT_AUTHORIZED == "E_NOT_AUTHORIZED"
E_ALREADY_REGISTERED == "E_ALREADY_REGISTERED"
E_NOT_REGISTERED == "E_NOT_REGISTERED"
E_INSUFFICIENT_STAKE == "E_INSUFFICIENT_STAKE"
E_ALREADY_VOTED == "E_ALREADY_VOTED"
E_VOTING_CLOSED == "E_VOTING_CLOSED"
E_INVALID_AMOUNT == "E_INVALID_AMOUNT"

\* 1_000_000_000 MIST (1 SUI); amounts are counted in units of 10^8 MIST
MIN_STAKE == 10
REWARD_POOL_PERCENTAGE == 80
SLASH_PERCENTAGE == 10
\* 86_400_000 ms (24 hours); the network's clock is counted in units of 12 hours
VOTING_PERIOD_MS == 2

\* coin values offered as stake, as additional stake and as payment
StakeCoins == {MIN_STAKE - 1, MIN_STAKE, MIN_STAKE + 5, 2 * MIN_STAKE}
ExtraCoins == {0, MIN_STAKE}
PaymentCoins == {0, 10}

\* mutant of VotingPower: reputation taken as a percentage
VotingPower_Percent(stake_value, reputation_score) ==
    (stake_value * reputation_score) \div 100

\* cast_vote: voting power from stake and reputation
VotingPower(stake_value, reputation_score) ==
    (stake_value * reputation_score) \div 1000

\* create_verification_task: the share of the payment that is distributable
RewardAmount(payment_amount) ==
    (payment_amount * REWARD_POOL_PERCENTAGE) \div 100

\* mutant of update_reputation: the score is not kept in its range
update_reputation_Unbounded(reputation_score, success) ==
    IF success THEN reputation_score + 10 ELSE reputation_score - 20

\* mutant of update_reputation: a failure costs 10
update_reputation_Symmetric(reputation_score, success) ==
    IF success
    THEN IF reputation_score + 10 > 1000 THEN 1000 ELSE reputation_score + 10
    ELSE IF reputation_score < 10 THEN 0 ELSE reputation_score - 10

\* update_reputation(verifier, success)
update_reputation(reputation_score, success) ==
    IF success
    THEN IF reputation_score + 10 > 1000 THEN 1000 ELSE reputation_score + 10
    ELSE IF reputation_score < 20 THEN 0 ELSE reputation_score - 20

\* mutant of RegisterVerifierAbort: the stake must exceed MIN_STAKE
RegisterVerifierAbort_Strict(sender, stake_amount) ==
    IF sender \in network.verifier_index THEN E_ALREADY_REGISTERED
    ELSE IF ~(stake_amount > MIN_STAKE) THEN E_INSUFFICIENT_STAKE
    ELSE OK

\* mutant of RegisterVerifierAbort: the stake is not looked at
RegisterVerifierAbort_AnyStake(sender, stake_amount) ==
    IF sender \in network.verifier_index THEN E_ALREADY_REGISTERED ELSE OK

\* the first assertion of register_verifier that fails, OK when none does
RegisterVerifierAbort(sender, stake_amount) ==
    IF sender \in network.verifier_index THEN E_ALREADY_REGISTERED
    ELSE IF ~(stake_amount >= MIN_STAKE) THEN E_INSUFFICIENT_STAKE
    ELSE OK

\* the Verifier object register_verifier creates
NewVerifier(sender, stake_amount) ==
    [address |-> sender,
     stake |-> stake_amount,
     reputation_score |-> 100,
     total_verifications |-> 0,
     successful_verifications |-> 0,
     is_active |-> TRUE]

register_verifier(sender, stake_amount) ==
    /\ RegisterVerifierAbort(sender, stake_amount) = OK
    /\ verifiers' = Put(verifiers, sender, NewVerifier(sender, stake_amount))
    /\ network' = [network EXCEPT
           !.verifier_index = @ \cup {sender},
           !.verifier_count = @ + 1,
           !.total_stake = @ + stake_amount]
    /\ UNCHANGED <<now, tasks, varsTO, varsAC, varsPR>>

AddStakeAbort(sender, v) ==
    IF sender # verifiers[v].address THEN E_NOT_AUTHORIZED ELSE OK

\* mutant of add_stake: the network's total is not raised
add_stake_NoTotal(sender, v, amount) ==
    /\ v \in DOMAIN verifiers
    /\ verifiers[v].stake + amount <= MaxStake
    /\ AddStakeAbort(sender, v) = OK
    /\ verifiers' = [verifiers EXCEPT ![v].stake = @ + amount]
    /\ UNCHANGED <<now, network, tasks, varsTO, varsAC, varsPR>>

add_stake(sender, v, amount) ==
    /\ v \in DOMAIN verifiers
    /\ verifiers[v].stake + amount <= MaxStake
    /\ AddStakeAbort(sender, v) = OK
    /\ verifiers' = [verifiers EXCEPT ![v].stake = @ + amount]
    /\ network' = [network EXCEPT !.total_stake = @ + amount]
    /\ UNCHANGED <<now, tasks, varsTO, varsAC, varsPR>>

CreateTaskAbort(payment_amount) ==
    IF ~(payment_amount > 0) THEN E_INVALID_AMOUNT ELSE OK

\* the VerificationTask object create_verification_task creates
NewTask(sender, payment_amount) ==
    [voting_ends_at |-> now + VOTING_PERIOD_MS,
     votes_for |-> 0,
     votes_against |-> 0,
     total_voting_power |-> 0,
     voters |-> << >>,
     is_finalized |-> FALSE,
     result |-> FALSE,
     reward_amount |-> RewardAmount(payment_amount)]

create_verification_task(sender, t, payment_amount) ==
    /\ t \notin DOMAIN tasks
    /\ CreateTaskAbort(payment_amount) = OK
    /\ network' = [network EXCEPT !.reward_pool = @ + payment_amount]
    /\ tasks' = Put(tasks, t, NewTask(sender, payment_amount))
    /\ UNCHANGED <<now, verifiers, varsTO, varsAC, varsPR>>

\* mutant of CastVoteAbort: the voter table is not consulted
CastVoteAbort_NoVotedCheck(sender, v, t) ==
    IF sender # verifiers[v].address THEN E_NOT_AUTHORIZED
    ELSE IF ~verifiers[v].is_active THEN E_NOT_REGISTERED
    ELSE IF tasks[t].is_finalized THEN E_VOTING_CLOSED
    ELSE IF ~(now <= tasks[t].voting_ends_at) THEN E_VOTING_CLOSED
    ELSE IF ~(VotingPower(verifiers[v].stake, verifiers[v].reputation_score) > 0)
         THEN E_INSUFFICIENT_STAKE
    ELSE OK

\* mutant of CastVoteAbort: neither the finalized flag nor the deadline is
\* checked
CastVoteAbort_NoClosedCheck(sender, v, t) ==
    IF sender # verifiers[v].address THEN E_NOT_AUTHORIZED
    ELSE IF ~verifiers[v].is_active THEN E_NOT_REGISTERED
    ELSE IF verifiers[v].address \in DOMAIN tasks[t].voters THEN E_ALREADY_VOTED
    ELSE IF ~(VotingPower(verifiers[v].stake, verifiers[v].reputation_score) > 0)
         THEN E_INSUFFICIENT_STAKE
    ELSE OK

\* mutant of CastVoteAbort: a vote without voting power is let in
CastVoteAbort_NoPowerCheck(sender, v, t) ==
    IF sender # verifiers[v].address THEN E_NOT_AUTHORIZED
    ELSE IF ~verifiers[v].is_active THEN E_NOT_REGISTERED
    ELSE IF tasks[t].is_finalized THEN E_VOTING_CLOSED
    ELSE IF ~(now <= tasks[t].voting_ends_at) THEN E_VOTING_CLOSED
    ELSE IF verifiers[v].address \in DOMAIN tasks[t].voters THEN E_ALREADY_VOTED
    ELSE OK

\* the first assertion of cast_vote that fails, OK when none does
CastVoteAbort(sender, v, t) ==
    IF sender # verifiers[v].address THEN E_NOT_AUTHORIZED
    ELSE IF ~verifiers[v].is_active THEN E_NOT_REGISTERED
    ELSE IF tasks[t].is_finalized THEN E_VOTING_CLOSED
    ELSE IF ~(now <= tasks[t].voting_ends_at) THEN E_VOTING_CLOSED
    ELSE IF verifiers[v].address \in DOMAIN tasks[t].voters THEN E_ALREADY_VOTED
    ELSE IF ~(VotingPower(verifiers[v].stake, verifiers[v].reputation_score) > 0)
         THEN E_INSUFFICIENT_STAKE
    ELSE OK

\* the writes of cast_vote to the task
CastVoteTask(task, voter, vote, voting_power) ==
    [task EXCEPT
        !.voters = Put(@, voter, [voter |-> voter, vote |-> vote,
                                  voting_power |-> voting_power]),
        !.votes_for = IF vote THEN @ + voting_power ELSE @,
        !.votes_against = IF vote THEN @ ELSE @ + voting_power,
        !.total_voting_power = @ + voting_power]

cast_vote(sender, v, t, vote) ==
    /\ v \in DOMAIN verifiers
    /\ t \in DOMAIN tasks
    /\ CastVoteAbort(sender, v, t) = OK
    /\ tasks' = [tasks EXCEPT ![t] =
           CastVoteTask(@, verifiers[v].address, vote,
                        VotingPower(verifiers[v].stake, verifiers[v].reputation_score))]
    /\ UNCHANGED <<now, network, verifiers, varsTO, varsAC, varsPR>>

\* mutant of FinalizeTaskAbort: only the deadline is checked
FinalizeTaskAbort_DeadlineOnly(t) ==
    IF ~(now > tasks[t].voting_ends_at) THEN E_VOTING_CLOSED ELSE OK

\* mutant of FinalizeTaskAbort: the task may be finalized at its deadline
FinalizeTaskAbort_AtDeadline(t) ==
    IF tasks[t].is_finalized THEN E_VOTING_CLOSED
    ELSE IF ~(now >= tasks[t].voting_ends_at) THEN E_VOTING_CLOSED
    ELSE OK

\* the first assertion of finalize_task that fails, OK when none does
FinalizeTaskAbort(t) ==
    IF tasks[t].is_finalized THEN E_VOTING_CLOSED
    ELSE IF ~(now > tasks[t].voting_ends_at) THEN E_VOTING_CLOSED
    ELSE OK

\* mutant of FinalizeTaskWrites: a tie approves
FinalizeTaskWrites_TieApproves(task) ==
    [task EXCEPT !.result = task.votes_for >= task.votes_against,
                 !.is_finalized = TRUE]

\* the writes of finalize_task to the task
FinalizeTaskWrites(task) ==
    [task EXCEPT !.result = task.votes_for > task.votes_against,
                 !.is_finalized = TRUE]

finalize_task(sender, t) ==
    /\ t \in DOMAIN tasks
    /\ FinalizeTaskAbort(t) = OK
    /\ tasks' = [tasks EXCEPT ![t] = FinalizeTaskWrites(@)]
    /\ UNCHANGED <<now, network, verifiers, varsTO, varsAC, varsPR>>

ClaimRewardAbort(sender, v, t) ==
    IF sender # verifiers[v].address THEN E_NOT_AUTHORIZED
    ELSE IF ~tasks[t].is_finalized THEN E_VOTING_CLOSED
    ELSE IF verifiers[v].address \notin DOMAIN tasks[t].voters THEN E_NOT_AUTHORIZED
    ELSE OK

\* mutant of RewardShare: the reward is split evenly among the voters
RewardShare_EvenSplit(task, voter) ==
    task.reward_amount \div Cardinality(DOMAIN task.voters)

\* claim_reward: the share of the reward pool computed for a majority voter
RewardShare(task, voter) ==
    (task.reward_amount * task.voters[voter].voting_power) \div task.total_voting_power

claim_reward(sender, v, t) ==
    /\ v \in DOMAIN verifiers
    /\ t \in DOMAIN tasks
    /\ ClaimRewardAbort(sender, v, t) = OK
    /\ LET vote == tasks[t].voters[verifiers[v].address]
           reward == RewardShare(tasks[t], verifiers[v].address)
           paid == vote.vote = tasks[t].result /\ reward > 0
                       /\ network.reward_pool >= reward
       IN
       /\ network' = [network EXCEPT
              !.reward_pool = IF paid THEN @ - reward ELSE @]
       /\ verifiers' = [verifiers EXCEPT
              ![v].successful_verifications = IF paid THEN @ + 1 ELSE @,
              ![v].reputation_score =
                  IF vote.vote = tasks[t].result
                  THEN IF paid THEN update_reputation(@, TRUE) ELSE @
                  ELSE update_reputation(@, FALSE),
              ![v].total_verifications = @ + 1]
    /\ UNCHANGED <<now, tasks, varsTO, varsAC, varsPR>>

\* mutant of SlashAmount: the tenth of the stake is rounded up
SlashAmount_Ceil(stake_amount) ==
    (stake_amount * SLASH_PERCENTAGE + 99) \div 100

\* admin_slash_verifier: the holder of the NetworkAdminCap slashes a verifier
SlashAmount(stake_amount) == (stake_amount * SLASH_PERCENTAGE) \div 100

admin_slash_verifier(v) ==
    /\ v \in DOMAIN verifiers
    /\ network.reward_pool + SlashAmount(verifiers[v].stake) <= MaxPool
    /\ LET slash_amount == SlashAmount(verifiers[v].stake) IN
       /\ verifiers' = [verifiers EXCEPT
              ![v].stake = @ - slash_amount,
              ![v].is_active = FALSE,
              ![v].reputation_score = 0]
       /\ network' = [network EXCEPT
              !.reward_pool = @ + slash_amount,
              !.total_stake = @ - slash_amount]
    /\ UNCHANGED <<now, tasks, varsTO, varsAC, varsPR>>

\* the clock of the substrate advances between transactions
TickVN ==
    /\ now < MaxClockVN
    /\ now' = now + 1
    /\ UNCHANGED <<varsVN, varsTO, varsAC, varsPR>>

--------------------------------------------------------------------------
(* truth_oracle.move *)

E_INVALID_CONFIDENCE == "E_INVALID_CONFIDENCE"
E_ALREADY_SUBMITTED == "E_ALREADY_SUBMITTED"
E_INSUFFICIENT_SUBMISSIONS == "E_INSUFFICIENT_SUBMISSIONS"
E_CONSENSUS_NOT_REACHED == "E_CONSENSUS_NOT_REACHED"
E_ORACLE_NOT_REGISTERED == "E_ORACLE_NOT_REGISTERED"
E_EMERGENCY_LOCKED == "E_EMERGENCY_LOCKED"

MIN_CONFIDENCE == 0
MAX_CONFIDENCE == 100
MIN_ORACLES_FOR_CONSENSUS == 3
CONSENSUS_THRESHOLD == 66
\* 2_592_000_000 ms (30 days), in the clock's units of 12 hours
REPUTATION_DECAY_PERIOD_MS == 60
TIME_WEIGHT_FACTOR == 10

\* confidences submitted with a detection
Confidences == {60, 85, 90, 101}

RegisterOracleAbort(sender) ==
    IF sender \in registry.oracle_index THEN E_ALREADY_SUBMITTED ELSE OK

\* the AIOracle object register_oracle creates
NewOracle(sender) ==
    [address |-> sender,
     last_active |-> now,
     total_submissions |-> 0,
     accurate_submissions |-> 0,
     reputation_score |-> 500,
     is_active |-> TRUE]

register_oracle(sender) ==
    /\ RegisterOracleAbort(sender) = OK
    /\ oracles' = Put(oracles, sender, NewOracle(sender))
    /\ registry' = [registry EXCEPT
           !.oracle_index = @ \cup {sender},
           !.oracle_count = @ + 1]
    /\ UNCHANGED <<now, results, varsVN, varsAC, varsPR>>

\* the DetectionResult object create_detection_result creates
NewResult ==
    [submissions |-> << >>,
     submission_count |-> 0,
     is_finalized |-> FALSE,
     consensus_reached |-> FALSE,
     final_verdict |-> FALSE,
     final_confidence |-> 0,
     total_ai_votes |-> 0,
     total_human_votes |-> 0]

create_detection_result(sender, r) ==
    /\ r \notin DOMAIN results
    /\ results' = Put(results, r, NewResult)
    /\ UNCHANGED <<now, registry, oracles, varsVN, varsAC, varsPR>>

\* mutant of Percentage: rounded up
Percentage_Ceil(part, total_votes) ==
    (part * 100 + total_votes - 1) \div total_votes

\* the percentage of part in total, as try_finalize_consensus computes it
Percentage(part, total_votes) == (part * 100) \div total_votes

\* mutant of try_finalize_consensus: the threshold must be exceeded
try_finalize_consensus_Strict(result) ==
    LET total_votes == result.total_ai_votes + result.total_human_votes IN
    IF total_votes = 0 THEN result
    ELSE LET ai_percentage == Percentage(result.total_ai_votes, total_votes)
             human_percentage == Percentage(result.total_human_votes, total_votes)
         IN
         IF ai_percentage > CONSENSUS_THRESHOLD
                \/ human_percentage > CONSENSUS_THRESHOLD
         THEN [result EXCEPT
                  !.is_finalized = TRUE,
                  !.consensus_reached = TRUE,
                  !.final_verdict = ai_percentage > CONSENSUS_THRESHOLD,
                  !.final_confidence =
                      IF ai_percentage > CONSENSUS_THRESHOLD
                      THEN ai_percentage ELSE human_percentage]
         ELSE result

\* try_finalize_consensus(result, timestamp)
try_finalize_consensus(result) ==
    LET total_votes == result.total_ai_votes + result.total_human_votes IN
    IF total_votes = 0 THEN result
    ELSE LET ai_percentage == Percentage(result.total_ai_votes, total_votes)
             human_percentage == Percentage(result.total_human_votes, total_votes)
         IN
         IF ai_percentage >= CONSENSUS_THRESHOLD
                \/ human_percentage >= CONSENSUS_THRESHOLD
         THEN [result EXCEPT
                  !.is_finalized = TRUE,
                  !.consensus_reached = TRUE,
                  !.final_verdict = ai_percentage >= CONSENSUS_THRESHOLD,
                  !.final_confidence =
                      IF ai_percentage >= CONSENSUS_THRESHOLD
                      THEN ai_percentage ELSE human_percentage]
         ELSE result

\* mutant of apply_reputation_decay: a gap of one period decays already
apply_reputation_decay_AtPeriod(oracle, current_time) ==
    LET time_since_active == current_time - oracle.last_active IN
    IF time_since_active >= REPUTATION_DECAY_PERIOD_MS
    THEN LET decay_periods == time_since_active \div REPUTATION_DECAY_PERIOD_MS
             decay_amount == decay_periods * TIME_WEIGHT_FACTOR
         IN IF oracle.reputation_score > decay_amount
            THEN oracle.reputation_score - decay_amount
            ELSE 0
    ELSE oracle.reputation_score

\* apply_reputation_decay(oracle, current_time): the decayed reputation
apply_reputation_decay(oracle, current_time) ==
    LET time_since_active == current_time - oracle.last_active IN
    IF time_since_active > REPUTATION_DECAY_PERIOD_MS
    THEN LET decay_periods == time_since_active \div REPUTATION_DECAY_PERIOD_MS
             decay_amount == decay_periods * TIME_WEIGHT_FACTOR
         IN IF oracle.reputation_score > decay_amount
            THEN oracle.reputation_score - decay_amount
            ELSE 0
    ELSE oracle.reputation_score

\* mutant of SubmitDetectionAbort: the submission table is not consulted
SubmitDetectionAbort_NoSubmittedCheck(sender, o, r, confidence) ==
    IF registry.emergency_paused THEN E_EMERGENCY_LOCKED
    ELSE IF sender # oracles[o].address THEN E_NOT_AUTHORIZED
    ELSE IF ~oracles[o].is_active THEN E_ORACLE_NOT_REGISTERED
    ELSE IF results[r].is_finalized THEN E_CONSENSUS_NOT_REACHED
    ELSE IF ~(confidence >= MIN_CONFIDENCE /\ confidence <= MAX_CONFIDENCE)
         THEN E_INVALID_CONFIDENCE
    ELSE OK

\* the first assertion of submit_detection that fails, OK when none does
SubmitDetectionAbort(sender, o, r, confidence) ==
    IF registry.emergency_paused THEN E_EMERGENCY_LOCKED
    ELSE IF sender # oracles[o].address THEN E_NOT_AUTHORIZED
    ELSE IF ~oracles[o].is_active THEN E_ORACLE_NOT_REGISTERED
    ELSE IF results[r].is_finalized THEN E_CONSENSUS_NOT_REACHED
    ELSE IF oracles[o].address \in DOMAIN results[r].submissions
         THEN E_ALREADY_SUBMITTED
    ELSE IF ~(confidence >= MIN_CONFIDENCE /\ confidence <= MAX_CONFIDENCE)
         THEN E_INVALID_CONFIDENCE
    ELSE OK

\* mutant of SubmitDetectionResult: the vote is weighted by the confidence
SubmitDetectionResult_ByConfidence(result, oracle, is_ai_generated, confidence, weight) ==
    LET w == (weight * confidence) \div 100
        added == [result EXCEPT
            !.submissions = Put(@, oracle,
                [oracle |-> oracle, is_ai_generated |-> is_ai_generated,
                 weight |-> weight]),
            !.submission_count = @ + 1,
            !.total_ai_votes = IF is_ai_generated THEN @ + w ELSE @,
            !.total_human_votes = IF is_ai_generated THEN @ ELSE @ + w]
    IN IF added.submission_count >= MIN_ORACLES_FOR_CONSENSUS
       THEN try_finalize_consensus(added)
       ELSE added

\* mutant of SubmitDetectionResult: consensus is attempted on the totals
\* before the submission is added
SubmitDetectionResult_AttemptFirst(result, oracle, is_ai_generated, confidence, weight) ==
    LET tried == IF result.submission_count + 1 >= MIN_ORACLES_FOR_CONSENSUS
                 THEN try_finalize_consensus(result)
                 ELSE result
    IN [tried EXCEPT
            !.submissions = Put(@, oracle,
                [oracle |-> oracle, is_ai_generated |-> is_ai_generated,
                 weight |-> weight]),
            !.submission_count = @ + 1,
            !.total_ai_votes = IF is_ai_generated THEN @ + weight ELSE @,
            !.total_human_votes = IF is_ai_generated THEN @ ELSE @ + weight]

\* the writes of submit_detection to the result, the consensus attempt
\* included; the submission's confidence is stored and never read
SubmitDetectionResult(result, oracle, is_ai_generated, confidence, weight) ==
    LET added == [result EXCEPT
            !.submissions = Put(@, oracle,
                [oracle |-> oracle, is_ai_generated |-> is_ai_generated,
                 weight |-> weight]),
            !.submission_count = @ + 1,
            !.total_ai_votes = IF is_ai_generated THEN @ + weight ELSE @,
            !.total_human_votes = IF is_ai_generated THEN @ ELSE @ + weight]
    IN IF added.submission_count >= MIN_ORACLES_FOR_CONSENSUS
       THEN try_finalize_consensus(added)
       ELSE added

submit_detection(sender, o, r, is_ai_generated, confidence) ==
    /\ o \in DOMAIN oracles
    /\ r \in DOMAIN results
    /\ SubmitDetectionAbort(sender, o, r, confidence) = OK
    /\ LET weight == apply_reputation_decay(oracles[o], now) IN
       /\ results' = [results EXCEPT ![r] =
              SubmitDetectionResult(@, oracles[o].address, is_ai_generated,
                                    confidence, weight)]
       /\ oracles' = [oracles EXCEPT
              ![o].reputation_score = weight,
              ![o].total_submissions = @ + 1,
              ![o].last_active = now]
    /\ registry' = [registry EXCEPT !.total_verifications = @ + 1]
    /\ UNCHANGED <<now, varsVN, varsAC, varsPR>>

\* mutant of FinalizeConsensusAbort: a finalized result is finalized again
FinalizeConsensusAbort_NoFinalizedCheck(r) ==
    IF ~(results[r].submission_count >= MIN_ORACLES_FOR_CONSENSUS)
    THEN E_INSUFFICIENT_SUBMISSIONS
    ELSE OK

FinalizeConsensusAbort(r) ==
    IF results[r].is_finalized THEN E_CONSENSUS_NOT_REACHED
    ELSE IF ~(results[r].submission_count >= MIN_ORACLES_FOR_CONSENSUS)
         THEN E_INSUFFICIENT_SUBMISSIONS
    ELSE OK

finalize_consensus(sender, r) ==
    /\ r \in DOMAIN results
    /\ FinalizeConsensusAbort(r) = OK
    /\ results' = [results EXCEPT ![r] = try_finalize_consensus(@)]
    /\ UNCHANGED <<now, registry, oracles, varsVN, varsAC, varsPR>>

UpdateOracleReputationAbort(o, r) ==
    IF ~results[r].is_finalized THEN E_CONSENSUS_NOT_REACHED
    ELSE IF oracles[o].address \notin DOMAIN results[r].submissions
         THEN E_NOT_AUTHORIZED
    ELSE OK

\* the writes of update_oracle_reputation to the oracle
UpdateOracleWrites(oracle, was_correct) ==
    IF was_correct
    THEN [oracle EXCEPT
             !.accurate_submissions = @ + 1,
             !.reputation_score = IF @ + 20 > 1000 THEN 1000 ELSE @ + 20]
    ELSE [oracle EXCEPT
             !.reputation_score = IF @ < 30 THEN 0 ELSE @ - 30]

\* how far update_oracle_reputation has moved the oracle's reputation from
\* the weight of its submission on the result, in either direction
Drift(o, r) ==
    LET d == oracles[o].reputation_score
                 - results[r].submissions[oracles[o].address].weight
    IN IF d < 0 THEN -d ELSE d

update_oracle_reputation(o, r) ==
    /\ o \in DOMAIN oracles
    /\ r \in DOMAIN results
    /\ UpdateOracleReputationAbort(o, r) = OK
    /\ oracles' = [oracles EXCEPT ![o] =
           UpdateOracleWrites(@,
               results[r].submissions[oracles[o].address].is_ai_generated
                   = results[r].final_verdict)]
    /\ UNCHANGED <<now, registry, results, varsVN, varsAC, varsPR>>

\* admin functions, called by the holder of the OracleAdminCap
admin_emergency_pause ==
    /\ registry' = [registry EXCEPT !.emergency_paused = TRUE]
    /\ UNCHANGED <<now, oracles, results, varsVN, varsAC, varsPR>>

admin_resume ==
    /\ registry' = [registry EXCEPT !.emergency_paused = FALSE]
    /\ UNCHANGED <<now, oracles, results, varsVN, varsAC, varsPR>>

admin_emergency_override(r, new_verdict) ==
    /\ r \in DOMAIN results
    /\ results' = [results EXCEPT ![r].final_verdict = new_verdict,
                                  ![r].is_finalized = TRUE]
    /\ UNCHANGED <<now, registry, oracles, varsVN, varsAC, varsPR>>

admin_deactivate_oracle(o) ==
    /\ o \in DOMAIN oracles
    /\ oracles' = [oracles EXCEPT ![o].is_active = FALSE,
                                  ![o].reputation_score = 0]
    /\ UNCHANGED <<now, registry, results, varsVN, varsAC, varsPR>>

TickTO ==
    /\ now + ClockStepTO <= MaxClockTO
    /\ now' = now + ClockStepTO
    /\ UNCHANGED <<varsVN, varsTO, varsAC, varsPR>>

--------------------------------------------------------------------------
(* AccessControl: access_control.move *)

E_INVALID_CONDITION == "E_INVALID_CONDITION"
E_INVALID_ROLE == "E_INVALID_ROLE"
\* sui::dynamic_field's abort of table::add on a key that is present
EFieldAlreadyExists == "EFieldAlreadyExists"

ROLE_OWNER == 0
ROLE_ADMIN == 1
ROLE_VIEWER == 2
ROLE_VERIFIER == 3

\* the roles, expiry durations, access windows and conditions presented
Roles == {ROLE_OWNER, ROLE_ADMIN, ROLE_VIEWER, ROLE_VERIFIER, ROLE_VERIFIER + 1}
Durations == {0, 1}
Windows == {<<1, 2>>, <<2, 1>>}
ConditionTypes == {"min_reputation"}
ConditionValues == {1}
PrivacySettings == {<<FALSE, TRUE>>, <<TRUE, FALSE>>}

\* mutant of is_access_valid: the revocation is not looked at
is_access_valid_ExpiryOnly(grant, current_time) ==
    grant.expires_at = 0 \/ current_time <= grant.expires_at

\* view functions
is_public(policy) == policy.is_public

has_role(policy, user, role) ==
    IF role = ROLE_OWNER THEN policy.owner = user
    ELSE IF role = ROLE_ADMIN THEN user \in policy.admins
    ELSE IF role = ROLE_VIEWER THEN user \in policy.viewers
    ELSE IF role = ROLE_VERIFIER THEN user \in policy.verifiers
    ELSE FALSE

is_access_valid(grant, current_time) ==
    ~grant.is_revoked
        /\ (grant.expires_at = 0 \/ current_time <= grant.expires_at)

\* mutant of CreatePolicyAbort: table::add replaces the entry of the index
CreatePolicyAbort_Replace(content_id) == OK

\* create_policy(registry, content_id, key, algorithm, is_public, clock, ctx);
\* the policy object is identified by the content it is indexed under
CreatePolicyAbort(content_id) ==
    IF content_id \in accessRegistry.policy_index THEN EFieldAlreadyExists
    ELSE OK

NewPolicy(owner, content_id, public) ==
    [content_id |-> content_id,
     owner |-> owner,
     is_public |-> public,
     admins |-> {},
     viewers |-> {},
     verifiers |-> {},
     conditions |-> << >>]

create_policy(sender, content_id, public) ==
    /\ CreatePolicyAbort(content_id) = OK
    /\ policies' = Put(policies, content_id,
                       NewPolicy(sender, content_id, public))
    /\ accessRegistry' = [accessRegistry EXCEPT
           !.policy_index = @ \cup {content_id},
           !.policy_count = @ + 1]
    /\ UNCHANGED <<now, grants, varsVN, varsTO, varsPR>>

\* grant_access(policy, to, role, expiry_duration_ms, fragment, clock, ctx)
GrantAccessAbort(sender, p, role) ==
    IF ~(sender = policies[p].owner \/ sender \in policies[p].admins)
    THEN E_NOT_AUTHORIZED
    ELSE IF ~(role <= ROLE_VERIFIER) THEN E_INVALID_ROLE
    ELSE OK

\* the role sets of a policy after to is given the role
AddToRoleSet(policy, to, role) ==
    IF role = ROLE_ADMIN THEN [policy EXCEPT !.admins = @ \cup {to}]
    ELSE IF role = ROLE_VIEWER THEN [policy EXCEPT !.viewers = @ \cup {to}]
    ELSE IF role = ROLE_VERIFIER THEN [policy EXCEPT !.verifiers = @ \cup {to}]
    ELSE policy

NewGrant(p, to, sender, role, expiry_duration_ms, timestamp) ==
    [policy_id |-> p,
     granted_to |-> to,
     granted_by |-> sender,
     role |-> role,
     expires_at |-> IF expiry_duration_ms = 0 THEN 0
                    ELSE timestamp + expiry_duration_ms,
     is_revoked |-> FALSE]

grant_access(sender, p, to, role, expiry_duration_ms) ==
    /\ p \in DOMAIN policies
    /\ GrantAccessAbort(sender, p, role) = OK
    /\ policies' = [policies EXCEPT ![p] = AddToRoleSet(@, to, role)]
    /\ grants' = Append(grants,
                        NewGrant(p, to, sender, role, expiry_duration_ms, now))
    /\ UNCHANGED <<now, accessRegistry, varsVN, varsTO, varsPR>>

\* revoke_access(policy, grant, clock, ctx)
RevokeAccessAbort(sender, p, g) ==
    IF ~(sender = policies[p].owner \/ sender = grants[g].granted_by)
    THEN E_NOT_AUTHORIZED
    ELSE OK

\* the role sets of a policy after the grant's holder is taken out
RemoveFromRoleSet(policy, grant) ==
    IF grant.role = ROLE_ADMIN /\ grant.granted_to \in policy.admins
    THEN [policy EXCEPT !.admins = @ \ {grant.granted_to}]
    ELSE IF grant.role = ROLE_VIEWER /\ grant.granted_to \in policy.viewers
    THEN [policy EXCEPT !.viewers = @ \ {grant.granted_to}]
    ELSE IF grant.role = ROLE_VERIFIER /\ grant.granted_to \in policy.verifiers
    THEN [policy EXCEPT !.verifiers = @ \ {grant.granted_to}]
    ELSE policy

revoke_access(sender, p, g) ==
    /\ p \in DOMAIN policies
    /\ g \in DOMAIN grants
    /\ RevokeAccessAbort(sender, p, g) = OK
    /\ grants' = [grants EXCEPT ![g].is_revoked = TRUE]
    /\ policies' = [policies EXCEPT ![p] = RemoveFromRoleSet(@, grants[g])]
    /\ UNCHANGED <<now, accessRegistry, varsVN, varsTO, varsPR>>

\* add_condition(policy, condition_type, parameter, value, clock, ctx)
AddConditionAbort(sender, p) ==
    IF sender # policies[p].owner THEN E_NOT_AUTHORIZED ELSE OK

add_condition(sender, p, condition_type, value) ==
    /\ p \in DOMAIN policies
    /\ AddConditionAbort(sender, p) = OK
    /\ policies' = [policies EXCEPT ![p].conditions =
           Put(@, condition_type, [value |-> value, is_active |-> TRUE])]
    /\ UNCHANGED <<now, accessRegistry, grants, varsVN, varsTO, varsPR>>

\* update_privacy_settings(policy, is_public, require_verification, clock,
\* ctx); require_verification is read by no function
UpdatePrivacySettingsAbort(sender, p) ==
    IF sender # policies[p].owner THEN E_NOT_AUTHORIZED ELSE OK

update_privacy_settings(sender, p, public, require_verification) ==
    /\ p \in DOMAIN policies
    /\ UpdatePrivacySettingsAbort(sender, p) = OK
    /\ policies' = [policies EXCEPT ![p].is_public = public]
    /\ UNCHANGED <<now, accessRegistry, grants, varsVN, varsTO, varsPR>>

\* set_access_window(policy, start_time, end_time, clock, ctx); the window
\* it stores is read by no function
SetAccessWindowAbort(sender, p, start_time, end_time) ==
    IF sender # policies[p].owner THEN E_NOT_AUTHORIZED
    ELSE IF ~(end_time = 0 \/ end_time > start_time) THEN E_INVALID_CONDITION
    ELSE OK

set_access_window(sender, p, start_time, end_time) ==
    /\ p \in DOMAIN policies
    /\ SetAccessWindowAbort(sender, p, start_time, end_time) = OK
    /\ UNCHANGED <<now, varsAC, varsVN, varsTO, varsPR>>

\* request_access(policy, requested_role, justification, clock, ctx); the
\* AccessRequest it hands to the policy's owner is read by no function
RequestAccessAbort(requested_role) ==
    IF ~(requested_role <= ROLE_VERIFIER) THEN E_INVALID_ROLE ELSE OK

request_access(sender, p, requested_role) ==
    /\ p \in DOMAIN policies
    /\ RequestAccessAbort(requested_role) = OK
    /\ UNCHANGED <<now, varsAC, varsVN, varsTO, varsPR>>

\* admin_emergency_lockdown(cap, policy, clock), called by the holder of
\* the AccessAdminCap
admin_emergency_lockdown(p) ==
    /\ p \in DOMAIN policies
    /\ policies' = [policies EXCEPT
           ![p].is_public = FALSE,
           ![p].admins = {},
           ![p].viewers = {},
           ![p].verifiers = {}]
    /\ UNCHANGED <<now, accessRegistry, grants, varsVN, varsTO, varsPR>>

\* the clock of the chain advances
TickAC ==
    /\ now < MaxClockAC
    /\ now' = now + 1
    /\ UNCHANGED <<varsVN, varsTO, varsAC, varsPR>>

--------------------------------------------------------------------------
(* ProvenanceRegistry: provenance_registry.move *)

E_CONTENT_ALREADY_REGISTERED == "E_CONTENT_ALREADY_REGISTERED"
E_INVALID_HASH == "E_INVALID_HASH"
E_INVALID_METADATA == "E_INVALID_METADATA"
E_TRANSFER_NOT_ALLOWED == "E_TRANSFER_NOT_ALLOWED"

\* the content hashes, trust scores, metadata and expiries presented
Hashes == {<< >>, <<1>>, <<2>>}
TrustScores == {100, 101}
MetadataKeys == {"title"}
MetadataValues == {"v1"}
Expiries == {0, 1}
CapIds == {"k1"}

\* view functions
get_content_count == contentRegistry.content_count

is_content_registered(content_hash) ==
    content_hash \in contentRegistry.content_index

\* mutant of RegisterContentAbort: the empty hash is accepted
RegisterContentAbort_NoEmptyCheck(content_hash) ==
    IF content_hash \in contentRegistry.content_index
    THEN E_CONTENT_ALREADY_REGISTERED
    ELSE OK

\* mutant of RegisterContentAbort: the index is not consulted
RegisterContentAbort_NoIndexCheck(content_hash) ==
    IF ~(Len(content_hash) > 0) THEN E_INVALID_HASH ELSE OK

\* register_content(registry, content_hash, algorithm, blob, key, clock, ctx)
RegisterContentAbort(content_hash) ==
    IF ~(Len(content_hash) > 0) THEN E_INVALID_HASH
    ELSE IF content_hash \in contentRegistry.content_index
         THEN E_CONTENT_ALREADY_REGISTERED
    ELSE OK

NewContentProof(content_hash, creator) ==
    [content_hash |-> content_hash,
     creator |-> creator,
     current_owner |-> creator,
     metadata |-> << >>,
     verification_count |-> 0,
     trust_score |-> 50,
     transferable |-> TRUE]

\* the proofs are numbered in the order of their creation
register_content(sender, content_hash) ==
    /\ RegisterContentAbort(content_hash) = OK
    /\ proofs' = Append(proofs, NewContentProof(content_hash, sender))
    /\ contentRegistry' = [contentRegistry EXCEPT
           !.content_index = @ \cup {content_hash},
           !.content_count = @ + 1]
    /\ UNCHANGED <<now, transferCaps, varsVN, varsTO, varsAC>>

\* update_metadata(content_proof, key, value, clock, ctx)
UpdateMetadataAbort(sender, id) ==
    IF sender # proofs[id].current_owner THEN E_NOT_AUTHORIZED ELSE OK

update_metadata(sender, id, key, value) ==
    /\ id \in DOMAIN proofs
    /\ UpdateMetadataAbort(sender, id) = OK
    /\ proofs' = [proofs EXCEPT ![id].metadata = Put(@, key, value)]
    /\ UNCHANGED <<now, contentRegistry, transferCaps, varsVN, varsTO, varsAC>>

\* mutant of WeightedTrustScore: the weighted sum is not divided
WeightedTrustScore_Sum(trust_score, new_trust_score) ==
    trust_score * (10 - 7) + new_trust_score * 7

\* the weighted average of record_verification, the new score weighing 7
\* in 10
WeightedTrustScore(trust_score, new_trust_score) ==
    (trust_score * (10 - 7) + new_trust_score * 7) \div 10

\* record_verification(content_proof, new_trust_score, clock, ctx)
RecordVerificationAbort(new_trust_score) ==
    IF ~(new_trust_score <= 100) THEN E_INVALID_METADATA ELSE OK

record_verification(sender, id, new_trust_score) ==
    /\ id \in DOMAIN proofs
    /\ RecordVerificationAbort(new_trust_score) = OK
    /\ proofs' = [proofs EXCEPT
           ![id].verification_count = @ + 1,
           ![id].trust_score = WeightedTrustScore(@, new_trust_score)]
    /\ UNCHANGED <<now, contentRegistry, transferCaps, varsVN, varsTO, varsAC>>

\* create_transfer_cap(content_proof, to, expiry_ms, clock, ctx)
CreateTransferCapAbort(sender, id) ==
    IF sender # proofs[id].current_owner THEN E_NOT_AUTHORIZED
    ELSE IF ~proofs[id].transferable THEN E_TRANSFER_NOT_ALLOWED
    ELSE OK

NewTransferCap(id, to, expiry_ms, timestamp) ==
    [content_proof_id |-> id,
     from |-> proofs[id].current_owner,
     to |-> to,
     expires_at |-> timestamp + expiry_ms]

create_transfer_cap(sender, id, cap, to, expiry_ms) ==
    /\ id \in DOMAIN proofs
    /\ cap \notin DOMAIN transferCaps
    /\ CreateTransferCapAbort(sender, id) = OK
    /\ transferCaps' = Put(transferCaps, cap,
                           NewTransferCap(id, to, expiry_ms, now))
    /\ UNCHANGED <<now, contentRegistry, proofs, varsVN, varsTO, varsAC>>

\* mutant of ExecuteTransferAbort: the issuer need not be the owner still
ExecuteTransferAbort_NoOwnerCheck(sender, id, cap) ==
    IF transferCaps[cap].content_proof_id # id THEN E_NOT_AUTHORIZED
    ELSE IF sender # transferCaps[cap].to THEN E_NOT_AUTHORIZED
    ELSE IF ~(now <= transferCaps[cap].expires_at) THEN E_NOT_AUTHORIZED
    ELSE OK

\* execute_transfer(content_proof, transfer_cap, clock, ctx)
ExecuteTransferAbort(sender, id, cap) ==
    IF transferCaps[cap].content_proof_id # id THEN E_NOT_AUTHORIZED
    ELSE IF sender # transferCaps[cap].to THEN E_NOT_AUTHORIZED
    ELSE IF ~(now <= transferCaps[cap].expires_at) THEN E_NOT_AUTHORIZED
    ELSE IF proofs[id].current_owner # transferCaps[cap].from
         THEN E_NOT_AUTHORIZED
    ELSE OK

\* mutant of execute_transfer: the capability is not deleted
execute_transfer_KeepCap(sender, id, cap) ==
    /\ id \in DOMAIN proofs
    /\ cap \in DOMAIN transferCaps
    /\ ExecuteTransferAbort(sender, id, cap) = OK
    /\ proofs' = [proofs EXCEPT ![id].current_owner = transferCaps[cap].to]
    /\ UNCHANGED <<now, contentRegistry, transferCaps, varsVN, varsTO, varsAC>>

execute_transfer(sender, id, cap) ==
    /\ id \in DOMAIN proofs
    /\ cap \in DOMAIN transferCaps
    /\ ExecuteTransferAbort(sender, id, cap) = OK
    /\ proofs' = [proofs EXCEPT ![id].current_owner = transferCaps[cap].to]
    /\ transferCaps' = [k \in DOMAIN transferCaps \ {cap} |-> transferCaps[k]]
    /\ UNCHANGED <<now, contentRegistry, varsVN, varsTO, varsAC>>

\* mutant of SetTransferableAbort: the creator is let through as well
SetTransferableAbort_CreatorToo(sender, id) ==
    IF sender # proofs[id].current_owner /\ sender # proofs[id].creator
    THEN E_NOT_AUTHORIZED
    ELSE OK

\* set_transferable(content_proof, transferable, clock, ctx)
SetTransferableAbort(sender, id) ==
    IF sender # proofs[id].current_owner THEN E_NOT_AUTHORIZED ELSE OK

set_transferable(sender, id, transferable) ==
    /\ id \in DOMAIN proofs
    /\ SetTransferableAbort(sender, id) = OK
    /\ proofs' = [proofs EXCEPT ![id].transferable = transferable]
    /\ UNCHANGED <<now, contentRegistry, transferCaps, varsVN, varsTO, varsAC>>

\* admin functions, called by the holder of the AdminCap
admin_pause_transfers(id) ==
    /\ id \in DOMAIN proofs
    /\ proofs' = [proofs EXCEPT ![id].transferable = FALSE]
    /\ UNCHANGED <<now, contentRegistry, transferCaps, varsVN, varsTO, varsAC>>

AdminOverrideTrustScoreAbort(new_score) ==
    IF ~(new_score <= 100) THEN E_INVALID_METADATA ELSE OK

admin_override_trust_score(id, new_score) ==
    /\ id \in DOMAIN proofs
    /\ AdminOverrideTrustScoreAbort(new_score) = OK
    /\ proofs' = [proofs EXCEPT ![id].trust_score = new_score]
    /\ UNCHANGED <<now, contentRegistry, transferCaps, varsVN, varsTO, varsAC>>

\* the clock of the chain advances
TickPR ==
    /\ now < MaxClockPR
    /\ now' = now + 1
    /\ UNCHANGED <<varsVN, varsTO, varsAC, varsPR>>

--------------------------------------------------------------------------
(* State after the modules' init functions *)

InitVN ==
    /\ network = [verifier_count |-> 0, total_stake |-> 0, reward_pool |-> 0,
                  verifier_index |-> {}]
    /\ verifiers = << >>
    /\ tasks = << >>

InitTO ==
    /\ registry = [oracle_count |-> 0, total_verifications |-> 0,
                   oracle_index |-> {}, emergency_paused |-> FALSE]
    /\ oracles = << >>
    /\ results = << >>

InitAC ==
    /\ accessRegistry = [policy_count |-> 0, policy_index |-> {}]
    /\ policies = << >>
    /\ grants = << >>

InitPR ==
    /\ contentRegistry = [content_count |-> 0, content_index |-> {}]
    /\ proofs = << >>
    /\ transferCaps = << >>

Init ==
    /\ now = 0
    /\ InitVN
    /\ InitTO
    /\ InitAC
    /\ InitPR

NextVN ==
    \/ \E a \in Addr, c \in StakeCoins : register_verifier(a, c)
    \/ \E a \in Addr, v \in Addr, c \in ExtraCoins : add_stake(a, v, c)
    \/ \E a \in Addr, t \in TaskIds, c \in PaymentCoins :
           create_verification_task(a, t, c)
    \/ \E a \in Addr, v \in Addr, t \in TaskIds, b \in BOOLEAN :
           cast_vote(a, v, t, b)
    \/ \E a \in Addr, t \in TaskIds : finalize_task(a, t)
    \/ \E a \in Addr, v \in DOMAIN verifiers, t \in TaskIds :
           /\ verifiers[v].total_verifications < MaxVerifications
           /\ claim_reward(a, v, t)
    \/ \E v \in Addr : admin_slash_verifier(v)
    \/ TickVN

SpecVN == Init /\ [][NextVN]_vars

\* one task and its claims: the reward pool is fed by the payment of the
\* task alone, and claim_reward is followed past the first claim
NextClaim ==
    \/ \E a \in Addr, c \in StakeCoins : register_verifier(a, c)
    \/ \E a \in Addr, t \in TaskIds, c \in PaymentCoins :
           create_verification_task(a, t, c)
    \/ \E a \in Addr, v \in Addr, t \in TaskIds, b \in BOOLEAN :
           cast_vote(a, v, t, b)
    \/ \E a \in Addr, t \in TaskIds : finalize_task(a, t)
    \/ \E a \in Addr, v \in DOMAIN verifiers, t \in TaskIds :
           /\ verifiers[v].total_verifications < MaxClaims
           /\ claim_reward(a, v, t)
    \/ TickVN

SpecClaim == Init /\ [][NextClaim]_vars

NextTO ==
    \/ \E a \in OracleAddr : register_oracle(a)
    \/ \E a \in OracleAddr, r \in ResultIds : create_detection_result(a, r)
    \/ \E a \in OracleAddr, o \in OracleAddr, r \in ResultIds, b \in BOOLEAN,
          c \in Confidences : submit_detection(a, o, r, b, c)
    \/ \E a \in OracleAddr, r \in ResultIds : finalize_consensus(a, r)
    \/ \E o \in DOMAIN oracles, r \in DOMAIN results :
           /\ UpdateOracleReputationAbort(o, r) = OK
           /\ Drift(o, r) < MaxDrift
           /\ update_oracle_reputation(o, r)
    \/ admin_emergency_pause
    \/ admin_resume
    \/ \E r \in ResultIds, b \in BOOLEAN : admin_emergency_override(r, b)
    \/ \E o \in OracleAddr : admin_deactivate_oracle(o)
    \/ TickTO

SpecTO == Init /\ [][NextTO]_vars

\* the oracles and the results of SpecOrder: one oracle more than the quorum,
\* and two results to receive the same submissions in different orders
OrderOracles == {"o1", "o2", "o3", "o4"}
OrderResults == {"r1", "r2"}

\* the submissions of four oracles on two results, with the consensus
\* attempts they make and a reputation update of each oracle, which makes the
\* weights differ
NextOrder ==
    \/ \E a \in OrderOracles : register_oracle(a)
    \/ \E a \in OrderOracles, r \in OrderResults : create_detection_result(a, r)
    \/ \E o \in OrderOracles, r \in OrderResults, b \in BOOLEAN :
           submit_detection(o, o, r, b, 85)
    \/ \E a \in OrderOracles, r \in OrderResults : finalize_consensus(a, r)
    \/ \E o \in DOMAIN oracles, r \in DOMAIN results :
           /\ oracles[o].reputation_score = NewOracle(o).reputation_score
           /\ update_oracle_reputation(o, r)

SpecOrder == Init /\ [][NextOrder]_vars

NextAC ==
    \/ \E a \in Addr, c \in ContentIds, b \in BOOLEAN : create_policy(a, c, b)
    \/ \E a \in Addr, p \in ContentIds, to \in Addr, role \in Roles,
          d \in Durations :
           /\ Len(grants) + 1 \in GrantIds
           /\ grant_access(a, p, to, role, d)
    \/ \E a \in Addr, p \in ContentIds, g \in GrantIds :
           revoke_access(a, p, g)
    \/ \E a \in Addr, p \in ContentIds, t \in ConditionTypes,
          v \in ConditionValues : add_condition(a, p, t, v)
    \/ \E a \in Addr, p \in ContentIds, ps \in PrivacySettings :
           update_privacy_settings(a, p, ps[1], ps[2])
    \/ \E a \in Addr, p \in ContentIds, w \in Windows :
           set_access_window(a, p, w[1], w[2])
    \/ \E a \in Addr, p \in ContentIds, role \in Roles :
           request_access(a, p, role)
    \/ \E p \in ContentIds : admin_emergency_lockdown(p)
    \/ TickAC

SpecAC == Init /\ [][NextAC]_vars

\* two grants on the policies of two owners: an admin who grants, grants
\* that outlive the admin's own, and grants handed to the other policy
GrantRoles == {ROLE_ADMIN, ROLE_VIEWER}

NextGrant ==
    \/ \E a \in Addr, c \in ContentIds : create_policy(a, c, FALSE)
    \/ \E a \in Addr, p \in ContentIds, to \in Addr, role \in GrantRoles :
           /\ Len(grants) < MaxGrants
           /\ grant_access(a, p, to, role, 0)
    \/ \E a \in Addr, p \in ContentIds, g \in DOMAIN grants :
           revoke_access(a, p, g)
    \/ \E a \in Addr, p \in ContentIds, t \in ConditionTypes,
          v \in ConditionValues : add_condition(a, p, t, v)
    \/ \E p \in ContentIds : admin_emergency_lockdown(p)

SpecGrant == Init /\ [][NextGrant]_vars

NextPR ==
    \/ \E a \in Addr, h \in Hashes : register_content(a, h)
    \/ \E a \in Addr, id \in 1..Cardinality(Hashes), k \in MetadataKeys,
          v \in MetadataValues : update_metadata(a, id, k, v)
    \/ \E a \in Addr, id \in DOMAIN proofs, sc \in TrustScores :
           /\ proofs[id].verification_count < MaxVerificationCount
           /\ record_verification(a, id, sc)
    \/ \E a \in Addr, id \in 1..Cardinality(Hashes), k \in CapIds, to \in Addr,
          e \in Expiries : create_transfer_cap(a, id, k, to, e)
    \/ \E a \in Addr, id \in 1..Cardinality(Hashes), k \in CapIds :
           execute_transfer(a, id, k)
    \/ \E a \in Addr, id \in 1..Cardinality(Hashes), b \in BOOLEAN :
           set_transferable(a, id, b)
    \/ \E id \in 1..Cardinality(Hashes) : admin_pause_transfers(id)
    \/ \E id \in 1..Cardinality(Hashes), sc \in TrustScores :
           admin_override_trust_score(id, sc)
    \/ TickPR

SpecPR == Init /\ [][NextPR]_vars

\* one content proof and two transfer capabilities: everything that reads or
\* writes the owner of a proof
XferHashes == {<< >>, <<1>>}
XferCapIds == {"k1", "k2"}

NextXfer ==
    \/ \E a \in Addr, h \in XferHashes : register_content(a, h)
    \/ \E a \in Addr, id \in DOMAIN proofs, k \in MetadataKeys,
          v \in MetadataValues : update_metadata(a, id, k, v)
    \/ \E a \in Addr, id \in DOMAIN proofs, k \in XferCapIds, to \in Addr,
          e \in Expiries : create_transfer_cap(a, id, k, to, e)
    \/ \E a \in Addr, id \in DOMAIN proofs, k \in XferCapIds :
           execute_transfer(a, id, k)
    \/ \E a \in Addr, id \in DOMAIN proofs, b \in BOOLEAN :
           set_transferable(a, id, b)
    \/ \E id \in DOMAIN proofs : admin_pause_transfers(id)
    \/ TickPR

SpecXfer == Init /\ [][NextXfer]_vars

\* the verification reports on one content proof: the scores of
\* test_multiple_verifications_consensus, and the ends of the range
ReportedScores == {0, 85, 90, 100}

NextTrust ==
    \/ \E a \in Addr, h \in XferHashes : register_content(a, h)
    \/ \E a \in Addr, id \in DOMAIN proofs, sc \in ReportedScores :
           /\ proofs[id].verification_count < MaxReports
           /\ record_verification(a, id, sc)

SpecTrust == Init /\ [][NextTrust]_vars

--------------------------------------------------------------------------
(* Verifiers and oracles with a history: the reputation scores at the ends
   of their range are reached after dozens of claims and updates, so SpecRep
   starts where these have been made. *)

RECURSIVE Repeated(_, _, _)
\* update_reputation applied n times to a score (a score at the end of
\* its range stays there)
Repeated(score, success, n) ==
    IF n = 0 \/ update_reputation(score, success) = score THEN score
    ELSE Repeated(update_reputation(score, success), success, n - 1)

\* <<paid majority claims, minority claims>> a verifier has behind it; its
\* other claims were majority claims whose share was 0 and left the
\* reputation as it was
VerifierHistories == {<<0, 0>>, <<0, 5>>, <<89, 0>>, <<90, 0>>}

\* the Verifier object after register_verifier and MaxHistory claims
HistoricVerifier(sender, stake_amount, h) ==
    [NewVerifier(sender, stake_amount) EXCEPT
        !.reputation_score = Repeated(Repeated(@, FALSE, h[2]), TRUE, h[1]),
        !.total_verifications = MaxHistory,
        !.successful_verifications = h[1]]

RECURSIVE RepeatedUpdate(_, _, _)
\* update_oracle_reputation applied n times to an oracle: its score (a
\* score at the end of its range stays there)
RepeatedUpdate(oracle, was_correct, n) ==
    IF n = 0 \/ UpdateOracleWrites(oracle, was_correct).reputation_score
                    = oracle.reputation_score
    THEN oracle.reputation_score
    ELSE RepeatedUpdate(UpdateOracleWrites(oracle, was_correct), was_correct, n - 1)

\* <<correct, incorrect>> submissions an oracle has behind it, each followed
\* by one update_oracle_reputation
OracleHistories == {<<0, 0>>, <<25, 0>>, <<0, 16>>}

\* the AIOracle object after register_oracle and the submissions of h
HistoricOracle(sender, h) ==
    [NewOracle(sender) EXCEPT
        !.reputation_score =
            RepeatedUpdate(
                [NewOracle(sender) EXCEPT !.reputation_score =
                    RepeatedUpdate(NewOracle(sender), FALSE, h[2])],
                TRUE, h[1]),
        !.accurate_submissions = h[1],
        !.total_submissions = h[1] + h[2]]

\* the verifiers and the oracles whose transactions SpecRep follows
RepVerifiers == {"a1"}
RepOracles == {"o1"}

\* both verifiers are registered with twice MIN_STAKE, "a1" with a history
\* and "a2" with 90 paid claims, a task paid 10 has just been created and
\* "a2" has voted on it; the three oracles are registered, "o1" with a
\* history, and "o2" and "o3" have just submitted on a result
InitRep ==
    /\ now = 0
    /\ \E h \in VerifierHistories :
           verifiers = [a \in Addr |->
               HistoricVerifier(a, 2 * MIN_STAKE,
                                IF a \in RepVerifiers THEN h ELSE <<90, 0>>)]
    /\ network = [verifier_count |-> Cardinality(Addr),
                  total_stake |-> Cardinality(Addr) * 2 * MIN_STAKE,
                  reward_pool |-> 10,
                  verifier_index |-> Addr]
    /\ \E b \in BOOLEAN :
           tasks = [t \in TaskIds |->
               CastVoteTask(NewTask("a1", 10), "a2", b,
                   VotingPower(verifiers["a2"].stake,
                               verifiers["a2"].reputation_score))]
    /\ \E h \in OracleHistories :
           /\ oracles = [o \in OracleAddr |->
                  IF o \in RepOracles THEN HistoricOracle(o, h)
                  ELSE [NewOracle(o) EXCEPT !.total_submissions = 1]]
           /\ registry = [oracle_count |-> Cardinality(OracleAddr),
                          total_verifications |->
                              h[1] + h[2] + Cardinality(OracleAddr \ RepOracles),
                          oracle_index |-> OracleAddr,
                          emergency_paused |-> FALSE]
    /\ results = [r \in ResultIds |->
           SubmitDetectionResult(
               SubmitDetectionResult(NewResult, "o2", TRUE, 85, 500),
               "o3", TRUE, 85, 500)]
    /\ InitAC
    /\ InitPR

\* mutant of TickRep: the decay is applied as the clock advances
TickRep_Eager ==
    /\ now + ClockStepRep <= MaxClockRep
    /\ now' = now + ClockStepRep
    /\ oracles' = [o \in DOMAIN oracles |->
           [oracles[o] EXCEPT !.reputation_score =
               apply_reputation_decay(oracles[o], now + ClockStepRep)]]
    /\ UNCHANGED <<varsVN, registry, results, varsAC, varsPR>>

\* the clock advances by about a decay period
TickRep ==
    /\ now + ClockStepRep <= MaxClockRep
    /\ now' = now + ClockStepRep
    /\ UNCHANGED <<varsVN, varsTO, varsAC, varsPR>>

NextRep ==
    \/ \E a \in Addr, v \in RepVerifiers, t \in TaskIds, b \in BOOLEAN :
           cast_vote(a, v, t, b)
    \/ \E a \in Addr, t \in TaskIds : finalize_task(a, t)
    \/ \E a \in Addr, v \in RepVerifiers, t \in TaskIds :
           /\ verifiers[v].total_verifications < MaxHistory + MaxClaimsRep
           /\ claim_reward(a, v, t)
    \/ \E v \in RepVerifiers : admin_slash_verifier(v)
    \/ TickVN
    \/ \E o \in RepOracles, r \in ResultIds, b \in BOOLEAN :
           submit_detection(o, o, r, b, 85)
    \/ \E o \in RepOracles, r \in ResultIds :
           /\ UpdateOracleReputationAbort(o, r) = OK
           /\ Drift(o, r) < MaxDrift
           /\ oracles[o].accurate_submissions < oracles[o].total_submissions
           /\ update_oracle_reputation(o, r)
    \/ \E o \in RepOracles : admin_deactivate_oracle(o)
    \/ TickRep

SpecRep == InitRep /\ [][NextRep]_vars

\* the oracles with a history alone, with room for update_oracle_reputation
\* to be called again on the same result
NextUpd ==
    \/ \E o \in RepOracles, r \in ResultIds, b \in BOOLEAN :
           submit_detection(o, o, r, b, 85)
    \/ \E o \in RepOracles, r \in ResultIds :
           /\ UpdateOracleReputationAbort(o, r) = OK
           /\ Drift(o, r) < MaxDriftRep
           /\ oracles[o].accurate_submissions <= oracles[o].total_submissions
           /\ update_oracle_reputation(o, r)
    \/ \E o \in RepOracles : admin_deactivate_oracle(o)
    \/ TickRep

SpecUpd == InitRep /\ [][NextUpd]_vars

--------------------------------------------------------------------------
(* Claims on the verifier network *)

RECURSIVE SumPower(_, _)
\* the voting power recorded in a voter table for the voters in S
SumPower(voters, S) ==
    IF S = {} THEN 0
    ELSE LET a == CHOOSE x \in S : TRUE
         IN voters[a].voting_power + SumPower(voters, S \ {a})

\* C1: for every VerificationTask votes_for + votes_against =
\* total_voting_power, the tallies are the sums of the voting power the voter
\* table records (each voter once), and a second cast_vote of a verifier that
\* is in the voter table aborts: with E_ALREADY_VOTED when it gets past the
\* sender, activity and deadline checks.
C1_TallyAndOneVote ==
    \A t \in DOMAIN tasks :
        LET task == tasks[t]
            voted == DOMAIN task.voters
        IN
        /\ task.votes_for + task.votes_against = task.total_voting_power
        /\ task.total_voting_power = SumPower(task.voters, voted)
        /\ task.votes_for =
               SumPower(task.voters, {a \in voted : task.voters[a].vote})
        /\ \A v \in DOMAIN verifiers : \A a \in Addr :
               verifiers[v].address \in voted =>
                   /\ CastVoteAbort(a, v, t) # OK
                   /\ ( /\ a = verifiers[v].address
                        /\ verifiers[v].is_active
                        /\ ~task.is_finalized
                        /\ now <= task.voting_ends_at )
                      => CastVoteAbort(a, v, t) = E_ALREADY_VOTED

\* C1 witness: a task on which two verifiers voted on opposite sides while
\* voting is still open
C1_Witness ==
    \E t \in DOMAIN tasks :
        /\ Cardinality(DOMAIN tasks[t].voters) = 2
        /\ tasks[t].votes_for > 0
        /\ tasks[t].votes_against > 0
        /\ now <= tasks[t].voting_ends_at

\* C2: finalize_task on a finalized task aborts (E_VOTING_CLOSED) whatever
\* the clock and the caller, and no step changes the result, the tallies or
\* the finalized flag of a finalized task.
C2_FinalizeTwiceFails ==
    /\ [](\A t \in DOMAIN tasks :
             tasks[t].is_finalized => FinalizeTaskAbort(t) = E_VOTING_CLOSED)
    /\ [][\A t \in DOMAIN tasks :
             tasks[t].is_finalized =>
                 /\ tasks'[t].is_finalized
                 /\ tasks'[t].result = tasks[t].result
                 /\ tasks'[t].votes_for = tasks[t].votes_for
                 /\ tasks'[t].votes_against = tasks[t].votes_against
                 /\ tasks'[t].total_voting_power = tasks[t].total_voting_power]_vars

\* C2 witness: a finalized task with votes, approved, past its deadline
C2_Witness ==
    \E t \in DOMAIN tasks :
        /\ tasks[t].is_finalized
        /\ tasks[t].result
        /\ now > tasks[t].voting_ends_at

\* C6 as stated: in every state and for every caller, register_verifier
\* with less than MIN_STAKE aborts with E_INSUFFICIENT_STAKE and with exactly
\* MIN_STAKE commits
C6_Original ==
    \A a \in Addr :
        /\ \A c \in 0..(MIN_STAKE - 1) :
               RegisterVerifierAbort(a, c) = E_INSUFFICIENT_STAKE
        /\ RegisterVerifierAbort(a, MIN_STAKE) = OK

\* C6 amended: for a caller that is not registered yet, register_verifier
\* with less than MIN_STAKE aborts with E_INSUFFICIENT_STAKE and with
\* MIN_STAKE commits; for a registered caller it aborts with
\* E_ALREADY_REGISTERED whatever the stake.  A committed registration
\* creates an active Verifier of reputation 100 holding the stake, and an
\* aborted one registers nothing.
C6_RegisterVerifier ==
    /\ [](\A a \in Addr :
             /\ a \notin network.verifier_index =>
                    /\ \A c \in 0..(MIN_STAKE - 1) :
                           RegisterVerifierAbort(a, c) = E_INSUFFICIENT_STAKE
                    /\ RegisterVerifierAbort(a, MIN_STAKE) = OK
             /\ a \in network.verifier_index =>
                    \A c \in 0..(2 * MIN_STAKE) :
                        RegisterVerifierAbort(a, c) = E_ALREADY_REGISTERED)
    /\ [][\A a \in Addr :
             (a \in DOMAIN verifiers' /\ a \notin DOMAIN verifiers) =>
                 /\ verifiers'[a].stake >= MIN_STAKE
                 /\ verifiers'[a].is_active
                 /\ verifiers'[a].reputation_score = 100
                 /\ verifiers'[a].address = a
                 /\ a \notin network.verifier_index
                 /\ a \in network'.verifier_index]_vars

\* C6 witness: one address registered with exactly MIN_STAKE, the other not
C6_Witness ==
    /\ network.verifier_count = 1
    /\ \E a \in DOMAIN verifiers :
           /\ verifiers[a].stake = MIN_STAKE
           /\ verifiers[a].is_active
           /\ verifiers[a].reputation_score = 100

\* C10: a step that adds voter a to a task records for a the voting power
\* p = floor(stake * reputation / 1000) of a's Verifier before the step, and
\* adds exactly p to votes_for (vote = true) or to votes_against (vote =
\* false) and to total_voting_power; with stake 2 * MIN_STAKE at reputation
\* 100, p = 0.2 * MIN_STAKE.
C10_VotingPower ==
    [][\A t \in DOMAIN tasks : \A a \in Addr :
          (t \in DOMAIN tasks' /\ a \in DOMAIN tasks'[t].voters
              /\ a \notin DOMAIN tasks[t].voters) =>
              LET rec == tasks'[t].voters[a]
                  p == rec.voting_power
                  ver == verifiers[a]
              IN
              /\ 1000 * p <= ver.stake * ver.reputation_score
              /\ ver.stake * ver.reputation_score < 1000 * (p + 1)
              /\ p > 0
              /\ tasks'[t].votes_for =
                     tasks[t].votes_for + (IF rec.vote THEN p ELSE 0)
              /\ tasks'[t].votes_against =
                     tasks[t].votes_against + (IF rec.vote THEN 0 ELSE p)
              /\ tasks'[t].total_voting_power = tasks[t].total_voting_power + p
              /\ (ver.stake = 2 * MIN_STAKE /\ ver.reputation_score = 100)
                     => 5 * p = MIN_STAKE]_vars

\* C10 witness: recorded votes of a verifier of stake 2 * MIN_STAKE at
\* reputation 100 (power 0.2 * MIN_STAKE) and of one whose power was rounded
\* down (stake MIN_STAKE + 5, power 1)
C10_Witness ==
    \E t \in DOMAIN tasks : \E a, b \in DOMAIN tasks[t].voters :
        /\ verifiers[a].stake = 2 * MIN_STAKE
        /\ verifiers[a].reputation_score = 100
        /\ 5 * tasks[t].voters[a].voting_power = MIN_STAKE
        /\ verifiers[b].stake = MIN_STAKE + 5
        /\ verifiers[b].reputation_score = 100
        /\ tasks[t].voters[b].voting_power = 1

\* C11: finalize_task on a task that is not finalized commits exactly when
\* the clock is strictly past voting_ends_at, which create_verification_task
\* sets to the creation time + VOTING_PERIOD_MS (24 hours), and then it
\* commits for every caller and every tally; no task is finalized at or
\* before its deadline, and in no state do a cast_vote and a finalize_task
\* on the same task both commit.
C11_FinalizeAfterDeadline ==
    /\ [](\A t \in DOMAIN tasks :
             /\ ~tasks[t].is_finalized =>
                    /\ FinalizeTaskAbort(t) = OK <=> now > tasks[t].voting_ends_at
                    /\ FinalizeTaskAbort(t) = OK =>
                           \A a \in Addr : ENABLED finalize_task(a, t)
             /\ tasks[t].is_finalized => now > tasks[t].voting_ends_at
             /\ \A a \in Addr, v \in DOMAIN verifiers :
                    ~(CastVoteAbort(a, v, t) = OK /\ FinalizeTaskAbort(t) = OK))
    /\ [][\A t \in DOMAIN tasks' :
             /\ t \notin DOMAIN tasks =>
                    tasks'[t].voting_ends_at = now + VOTING_PERIOD_MS
             /\ t \in DOMAIN tasks =>
                    /\ tasks'[t].voting_ends_at = tasks[t].voting_ends_at
                    /\ ~tasks[t].is_finalized /\ tasks'[t].is_finalized =>
                           now > tasks[t].voting_ends_at]_vars

\* C11 witness: a task nobody voted on is finalized
C11_Witness ==
    \E t \in DOMAIN tasks :
        /\ tasks[t].is_finalized
        /\ tasks[t].total_voting_power = 0
        /\ DOMAIN tasks[t].voters = {}

\* C12: a finalized task's result is true exactly when its votes_for exceed
\* its votes_against, the tallies finalize_task found (they no longer change):
\* a tie, and a task without votes, are finalized with result false.
C12_ResultIsMajority ==
    \A t \in DOMAIN tasks :
        tasks[t].is_finalized =>
            /\ tasks[t].result <=> tasks[t].votes_for > tasks[t].votes_against
            /\ tasks[t].votes_for = tasks[t].votes_against => ~tasks[t].result

\* C12 witness: a task finalized on a tie of votes cast
C12_Witness ==
    \E t \in DOMAIN tasks :
        /\ tasks[t].is_finalized
        /\ tasks[t].votes_for = tasks[t].votes_against
        /\ tasks[t].votes_for > 0
        /\ ~tasks[t].result

\* C13: a finalized VerificationTask stays finalized and no step changes any
\* of its fields (result, tallies, total voting power, voter table); every
\* cast_vote on it aborts, with E_VOTING_CLOSED when the caller is the
\* verifier and the verifier is active; a task becomes finalized only by a
\* step of finalize_task.
C13_FinalizedIsTerminal ==
    /\ [](\A t \in DOMAIN tasks : \A a \in Addr, v \in DOMAIN verifiers :
             tasks[t].is_finalized =>
                 /\ CastVoteAbort(a, v, t) # OK
                 /\ a = verifiers[v].address /\ verifiers[v].is_active =>
                        CastVoteAbort(a, v, t) = E_VOTING_CLOSED)
    /\ [][\A t \in DOMAIN tasks :
             /\ tasks[t].is_finalized =>
                    t \in DOMAIN tasks' /\ tasks'[t] = tasks[t]
             /\ ~tasks[t].is_finalized /\ tasks'[t].is_finalized =>
                    \E a \in Addr : finalize_task(a, t)]_vars

\* C13 witness: a finalized task with votes, and an active verifier with
\* voting power that has not voted on it and is turned down
C13_Witness ==
    \E t \in DOMAIN tasks, v \in DOMAIN verifiers :
        /\ tasks[t].is_finalized
        /\ DOMAIN tasks[t].voters # {}
        /\ verifiers[v].is_active
        /\ v \notin DOMAIN tasks[t].voters
        /\ VotingPower(verifiers[v].stake, verifiers[v].reputation_score) > 0
        /\ CastVoteAbort(v, v, t) = E_VOTING_CLOSED

\* C17: admin_slash_verifier moves floor(stake * 10 / 100) from the
\* verifier's stake to the reward pool, so that their sum is unchanged, and
\* clears is_active; no step sets is_active again, and every cast_vote of a
\* verifier that is not active aborts.
C17_SlashAndDeactivate ==
    /\ [](\A v \in DOMAIN verifiers, t \in DOMAIN tasks, a \in Addr :
             ~verifiers[v].is_active =>
                 /\ CastVoteAbort(a, v, t) # OK
                 /\ \A b \in BOOLEAN : ~ENABLED cast_vote(a, v, t, b))
    /\ [][\A v \in DOMAIN verifiers :
             /\ ~verifiers[v].is_active => ~verifiers'[v].is_active
             /\ admin_slash_verifier(v) =>
                    /\ verifiers[v].stake - verifiers'[v].stake =
                           (verifiers[v].stake * 10) \div 100
                    /\ network'.reward_pool - network.reward_pool =
                           (verifiers[v].stake * 10) \div 100
                    /\ verifiers'[v].stake + network'.reward_pool =
                           verifiers[v].stake + network.reward_pool
                    /\ ~verifiers'[v].is_active]_vars

\* C17 witness: a verifier slashed from stake 15 to 14, the pool holding the
\* 1 taken and the 10 paid for a task that is open and that it has not
\* voted on
C17_Witness ==
    \E v \in DOMAIN verifiers, t \in DOMAIN tasks :
        /\ ~verifiers[v].is_active
        /\ verifiers[v].stake = 14
        /\ network.reward_pool = 10 + 1
        /\ ~tasks[t].is_finalized /\ now <= tasks[t].voting_ends_at
        /\ v \notin DOMAIN tasks[t].voters
        /\ CastVoteAbort(v, v, t) = E_NOT_REGISTERED

\* C18: every verifier whose is_active flag is set holds a stake of at least
\* MIN_STAKE.
C18_ActiveStake ==
    \A v \in DOMAIN verifiers :
        verifiers[v].is_active => verifiers[v].stake >= MIN_STAKE

\* C18 witness: an active verifier holding exactly MIN_STAKE next to a
\* slashed one holding less
C18_Witness ==
    \E v \in DOMAIN verifiers, w \in DOMAIN verifiers :
        /\ verifiers[v].is_active /\ verifiers[v].stake = MIN_STAKE
        /\ ~verifiers[w].is_active /\ verifiers[w].stake < MIN_STAKE

RECURSIVE SumStake(_)
\* the stake balances of the verifiers in S, added up
SumStake(S) ==
    IF S = {} THEN 0
    ELSE LET v == CHOOSE x \in S : TRUE
         IN verifiers[v].stake + SumStake(S \ {v})

\* C37: total_stake is the sum of the stake balances of the verifiers,
\* verifier_count is the number of verifiers and of indexed addresses, one
\* verifier per address, and register_verifier fails with
\* E_ALREADY_REGISTERED for an address that is registered.
C37_StakeAccounting ==
    /\ network.total_stake = SumStake(DOMAIN verifiers)
    /\ network.verifier_count = Cardinality(DOMAIN verifiers)
    /\ network.verifier_index = {verifiers[v].address : v \in DOMAIN verifiers}
    /\ network.verifier_count = Cardinality(network.verifier_index)
    /\ \A a \in network.verifier_index, c \in StakeCoins :
           /\ RegisterVerifierAbort(a, c) = E_ALREADY_REGISTERED
           /\ ~ENABLED register_verifier(a, c)

\* C37 witness: of two verifiers one has been slashed at the minimum stake
\* and the other holds twice the minimum stake
C37_Witness ==
    /\ network.verifier_count = 2
    /\ \E v, w \in DOMAIN verifiers :
           /\ ~verifiers[v].is_active
           /\ verifiers[v].stake = MIN_STAKE - SlashAmount(MIN_STAKE)
           /\ verifiers[w].is_active
           /\ verifiers[w].stake = 2 * MIN_STAKE
           /\ network.total_stake = 3 * MIN_STAKE - SlashAmount(MIN_STAKE)

\* the payment that fed the reward pool: the one positive coin offered
TaskPayment == CHOOSE c \in PaymentCoins : c > 0

\* C38: with the reward pool fed by the payment of the one task, what has
\* left the pool is no more than the task's reward_amount, and every
\* verifier has claimed, and has had its reputation adjusted, once at most:
\* its verifications counted are no more than the tasks, and its reputation
\* is that of registration or one update_reputation from it.
C38_Original ==
    /\ \A t \in DOMAIN tasks :
           TaskPayment - network.reward_pool <= tasks[t].reward_amount
    /\ \A v \in DOMAIN verifiers :
           /\ verifiers[v].total_verifications <= Cardinality(DOMAIN tasks)
           /\ verifiers[v].reputation_score \in
                  {NewVerifier(v, MIN_STAKE).reputation_score,
                   update_reputation(NewVerifier(v, MIN_STAKE).reputation_score,
                                     TRUE),
                   update_reputation(NewVerifier(v, MIN_STAKE).reputation_score,
                                     FALSE)}

\* more than the reward_amount of the task has been paid out
C38_WitnessOverpaid ==
    \E t \in DOMAIN tasks :
        /\ tasks[t].is_finalized
        /\ tasks[t].reward_amount = 8
        /\ TaskPayment - network.reward_pool > tasks[t].reward_amount

--------------------------------------------------------------------------
(* Claims on the truth oracle *)

\* the weighted votes of a result
TotalVotes(result) == result.total_ai_votes + result.total_human_votes

\* the larger share of the weighted votes is at least pct percent
LargerShareAtLeast(result, pct) ==
    \/ 100 * result.total_ai_votes >= pct * TotalVotes(result)
    \/ 100 * result.total_human_votes >= pct * TotalVotes(result)

\* C3: consensus_reached holds exactly when the quorum of 3 submissions is
\* met, the weighted total is > 0 and the larger of the two shares of the
\* weighted total is >= 66 percent.
C3_ConsensusIff ==
    \A r \in DOMAIN results :
        results[r].consensus_reached <=>
            /\ results[r].submission_count >= 3
            /\ TotalVotes(results[r]) > 0
            /\ LargerShareAtLeast(results[r], 66)

\* C3 witness: the quorum is met and votes are cast, yet the larger share is
\* below 66 and the result is left without consensus
C3_Witness ==
    \E r \in DOMAIN results :
        /\ results[r].submission_count >= 3
        /\ TotalVotes(results[r]) > 0
        /\ ~results[r].consensus_reached
        /\ ~results[r].is_finalized

\* C3 second witness: consensus on a two-to-one split of equal weights
C3_WitnessReached ==
    \E r \in DOMAIN results :
        /\ results[r].consensus_reached
        /\ 2 * results[r].total_human_votes = results[r].total_ai_votes

\* C4 as stated: with weighted votes > 0 the two percentages of the
\* consensus rule sum to exactly 100
C4_Original ==
    \A r \in DOMAIN results :
        TotalVotes(results[r]) > 0 =>
            Percentage(results[r].total_ai_votes, TotalVotes(results[r]))
              + Percentage(results[r].total_human_votes, TotalVotes(results[r]))
              = 100

\* C4 amended: each percentage is the share rounded down to a whole number,
\* so with weighted votes > 0 the two sum to 100 when the total divides
\* 100 * total_ai_votes and to 99 otherwise.
C4_PercentagesSum ==
    \A r \in DOMAIN results :
        LET ai == results[r].total_ai_votes
            human == results[r].total_human_votes
            total == ai + human
            ai_pct == Percentage(ai, total)
            human_pct == Percentage(human, total)
        IN total > 0 =>
            /\ ai_pct * total <= 100 * ai
            /\ 100 * ai < (ai_pct + 1) * total
            /\ human_pct * total <= 100 * human
            /\ 100 * human < (human_pct + 1) * total
            /\ ai_pct + human_pct = (IF (100 * ai) % total = 0 THEN 100 ELSE 99)

\* C4 witness: a result whose percentages sum to 99
C4_Witness ==
    \E r \in DOMAIN results :
        /\ results[r].total_ai_votes = 1000
        /\ results[r].total_human_votes = 500
        /\ Percentage(1000, 1500) + Percentage(500, 1500) = 99

\* the third submission to r is made in this step, and the three
\* submissions are two AI and one human verdict of weight 500 each
ThirdOfTwoAiOneHuman(r) ==
    /\ results[r].submission_count = 2
    /\ results'[r].submission_count = 3
    /\ ~results[r].is_finalized
    /\ LET subs == results'[r].submissions IN
       /\ \A a \in DOMAIN subs : subs[a].weight = 500
       /\ Cardinality({a \in DOMAIN subs : subs[a].is_ai_generated}) = 2
       /\ Cardinality({a \in DOMAIN subs : ~subs[a].is_ai_generated}) = 1

\* C5 as stated: the third of (AI, AI, Human) submissions of weight 500
\* finalizes with verdict AI-generated and a final confidence equal to the
\* AI share 2/3 x 100, about 66.7: the whole number nearest to the share
C5_Original ==
    [][\A r \in DOMAIN results :
          ThirdOfTwoAiOneHuman(r) =>
              /\ results'[r].is_finalized
              /\ results'[r].consensus_reached
              /\ results'[r].final_verdict
              /\ LET d == 100 * results'[r].total_ai_votes
                            - results'[r].final_confidence * TotalVotes(results'[r])
                 IN 2 * d <= TotalVotes(results'[r])
                      /\ -2 * d <= TotalVotes(results'[r])]_vars

\* C5 amended: the third of (AI, AI, Human) submissions of weight 500,
\* whatever the confidences submitted, finalizes the result with consensus
\* reached, verdict AI-generated and final confidence 66: the AI share
\* 2/3 x 100 rounded down to a whole percent.
C5_ExampleConsensus ==
    [][\A r \in DOMAIN results :
          ThirdOfTwoAiOneHuman(r) =>
              /\ results'[r].is_finalized
              /\ results'[r].consensus_reached
              /\ results'[r].final_verdict
              /\ results'[r].final_confidence = 66
              /\ results'[r].total_ai_votes = 1000
              /\ results'[r].total_human_votes = 500]_vars

\* C5 witness: the example's result after its third submission
C5_Witness ==
    \E r \in DOMAIN results :
        /\ results[r].submission_count = 3
        /\ \A a \in DOMAIN results[r].submissions :
               results[r].submissions[a].weight = 500
        /\ results[r].total_ai_votes = 1000
        /\ results[r].total_human_votes = 500
        /\ results[r].consensus_reached
        /\ results[r].final_verdict
        /\ results[r].final_confidence = 66

\* C20: submit_detection aborts, and so writes neither the result, the
\* oracle nor the registry, when the confidence is above 100, when the oracle
\* is in the result's submission table, when the caller is not the oracle's
\* address, when the oracle is not active, or when the result is finalized;
\* with the registry not paused the code is that of the first assertion that
\* fails: E_NOT_AUTHORIZED, E_ORACLE_NOT_REGISTERED, E_CONSENSUS_NOT_REACHED,
\* E_ALREADY_SUBMITTED, E_INVALID_CONFIDENCE. Every result's submission_count
\* is the number of oracles in its submission table.
C20_SubmitDetectionFails ==
    /\ \A r \in DOMAIN results :
           results[r].submission_count = Cardinality(DOMAIN results[r].submissions)
    /\ \A a \in OracleAddr, o \in DOMAIN oracles, r \in DOMAIN results,
          c \in Confidences :
           LET foreign == a # oracles[o].address
               inactive == ~oracles[o].is_active
               finalized == results[r].is_finalized
               submitted == oracles[o].address \in DOMAIN results[r].submissions
               invalid == c < 0 \/ c > 100
               code == SubmitDetectionAbort(a, o, r, c)
           IN
           /\ foreign \/ inactive \/ finalized \/ submitted \/ invalid =>
                  /\ code # OK
                  /\ \A b \in BOOLEAN : ~ENABLED submit_detection(a, o, r, b, c)
           /\ ~registry.emergency_paused =>
                  /\ foreign => code = E_NOT_AUTHORIZED
                  /\ ~foreign /\ inactive => code = E_ORACLE_NOT_REGISTERED
                  /\ ~foreign /\ ~inactive /\ finalized =>
                         code = E_CONSENSUS_NOT_REACHED
                  /\ ~foreign /\ ~inactive /\ ~finalized /\ submitted =>
                         code = E_ALREADY_SUBMITTED
                  /\ ~foreign /\ ~inactive /\ ~finalized /\ ~submitted /\ invalid =>
                         code = E_INVALID_CONFIDENCE

\* C20 witness: on a result with one submission, its submitter is turned
\* down for the submission, a deactivated oracle for its flag, a third
\* oracle for a confidence of 101 and for a foreign address
C20_Witness ==
    \E r \in DOMAIN results, o \in DOMAIN oracles, p \in DOMAIN oracles,
       q \in DOMAIN oracles :
        /\ ~registry.emergency_paused
        /\ ~results[r].is_finalized
        /\ results[r].submission_count = 1
        /\ SubmitDetectionAbort(o, o, r, 85) = E_ALREADY_SUBMITTED
        /\ SubmitDetectionAbort(p, p, r, 85) = E_ORACLE_NOT_REGISTERED
        /\ SubmitDetectionAbort(q, q, r, 101) = E_INVALID_CONFIDENCE
        /\ SubmitDetectionAbort(q, q, r, 85) = OK
        /\ SubmitDetectionAbort(o, q, r, 85) = E_NOT_AUTHORIZED

\* C20 witness of the finalized result: after three submissions and a
\* consensus, and after an override with one oracle still to submit
C20_WitnessFinalized ==
    \E r \in DOMAIN results, o \in DOMAIN oracles :
        /\ ~registry.emergency_paused
        /\ results[r].is_finalized
        /\ oracles[o].is_active
        /\ o \notin DOMAIN results[r].submissions
        /\ results[r].submission_count = 2
        /\ SubmitDetectionAbort(o, o, r, 85) = E_CONSENSUS_NOT_REACHED

\* C24: a finalized result stays finalized; submit_detection and
\* finalize_consensus fail on it, and no step changes anything of it but the
\* final verdict, which only admin_emergency_override changes; the override
\* is enabled on every result, finalized or not and whatever its submission
\* count, and leaves the result finalized with the verdict it was given.
C24_FinalizedStays ==
    /\ [](\A r \in DOMAIN results :
            /\ results[r].is_finalized =>
                   /\ FinalizeConsensusAbort(r) = E_CONSENSUS_NOT_REACHED
                   /\ \A a \in OracleAddr, o \in DOMAIN oracles,
                         c \in Confidences :
                          SubmitDetectionAbort(a, o, r, c) # OK
                   /\ \A a \in OracleAddr : ~ENABLED finalize_consensus(a, r)
            /\ \A b \in BOOLEAN : ENABLED admin_emergency_override(r, b))
    /\ [][\A r \in DOMAIN results :
            /\ results[r].is_finalized =>
                   /\ r \in DOMAIN results'
                   /\ results'[r] = [results[r] EXCEPT
                          !.final_verdict = results'[r].final_verdict]
                   /\ results'[r].final_verdict # results[r].final_verdict =>
                          \E b \in BOOLEAN : admin_emergency_override(r, b)
            /\ \A b \in BOOLEAN :
                   admin_emergency_override(r, b) =>
                       /\ results'[r].is_finalized
                       /\ results'[r].final_verdict = b]_vars

\* C24 witness: a result finalized by consensus carries the verdict the
\* weighted votes voted down, as an override left it
C24_Witness ==
    \E r \in DOMAIN results :
        /\ results[r].is_finalized
        /\ results[r].consensus_reached
        /\ results[r].submission_count >= MIN_ORACLES_FOR_CONSENSUS
        /\ results[r].final_verdict
        /\ results[r].total_ai_votes < results[r].total_human_votes

\* C24 witness: a result without a submission is finalized by an override
C24_WitnessUnfinalized ==
    \E r \in DOMAIN results :
        /\ results[r].is_finalized
        /\ ~results[r].consensus_reached
        /\ results[r].submission_count = 0
        /\ results[r].final_verdict

\* C36: while the registry is paused submit_detection, finalize_consensus,
\* update_oracle_reputation and register_oracle fail, and a step that leaves
\* the registry paused changes no oracle and no result, the verdict forced
\* by admin_emergency_override and the admin's deactivation of an oracle
\* aside.
C36_Original ==
    /\ [](registry.emergency_paused =>
            /\ \A a \in OracleAddr : RegisterOracleAbort(a) # OK
            /\ \A r \in DOMAIN results :
                   /\ FinalizeConsensusAbort(r) # OK
                   /\ \A o \in DOMAIN oracles :
                          /\ UpdateOracleReputationAbort(o, r) # OK
                          /\ \A a \in OracleAddr, c \in Confidences :
                                 SubmitDetectionAbort(a, o, r, c)
                                     = E_EMERGENCY_LOCKED)
    /\ [][registry.emergency_paused /\ registry'.emergency_paused =>
            /\ \A o \in DOMAIN oracles' :
                   \/ o \in DOMAIN oracles /\ oracles'[o] = oracles[o]
                   \/ admin_deactivate_oracle(o)
            /\ \A r \in DOMAIN results :
                   \/ results'[r] = results[r]
                   \/ \E b \in BOOLEAN : admin_emergency_override(r, b)]_vars

--------------------------------------------------------------------------
(* Claims on verifiers and oracles with a history *)

\* C14: cast_vote aborts, and so writes neither the task nor the verifier,
\* when the caller is not the verifier's address, when the clock is past the
\* deadline or the task is finalized, when the verifier has voted on the
\* task, or when its voting power is 0; the code is that of the first of
\* cast_vote's assertions that fails: E_NOT_AUTHORIZED for a foreign caller,
\* then (for an active verifier) E_VOTING_CLOSED, then E_ALREADY_VOTED, then
\* E_INSUFFICIENT_STAKE.
C14_CastVoteFails ==
    \A t \in DOMAIN tasks, a \in Addr, v \in DOMAIN verifiers :
        LET foreign == a # verifiers[v].address
            closed == tasks[t].is_finalized \/ now > tasks[t].voting_ends_at
            voted == verifiers[v].address \in DOMAIN tasks[t].voters
            powerless == (verifiers[v].stake * verifiers[v].reputation_score)
                             \div 1000 = 0
        IN
        /\ foreign \/ closed \/ voted \/ powerless =>
               /\ CastVoteAbort(a, v, t) # OK
               /\ \A b \in BOOLEAN : ~ENABLED cast_vote(a, v, t, b)
        /\ foreign => CastVoteAbort(a, v, t) = E_NOT_AUTHORIZED
        /\ ~foreign /\ verifiers[v].is_active =>
               /\ closed => CastVoteAbort(a, v, t) = E_VOTING_CLOSED
               /\ ~closed /\ voted => CastVoteAbort(a, v, t) = E_ALREADY_VOTED
               /\ ~closed /\ ~voted /\ powerless =>
                      CastVoteAbort(a, v, t) = E_INSUFFICIENT_STAKE

\* C14 witness: at the deadline of an open task, a verifier whose reputation
\* is down to 0 is turned down for its voting power, one that has voted for
\* its vote, and a foreign caller for its address
C14_Witness ==
    \E t \in DOMAIN tasks, v \in DOMAIN verifiers, w \in DOMAIN verifiers :
        /\ ~tasks[t].is_finalized /\ now = tasks[t].voting_ends_at
        /\ verifiers[v].is_active /\ verifiers[v].stake >= MIN_STAKE
        /\ verifiers[v].reputation_score = 0
        /\ CastVoteAbort(v, v, t) = E_INSUFFICIENT_STAKE
        /\ CastVoteAbort(w, w, t) = E_ALREADY_VOTED
        /\ CastVoteAbort(w, v, t) = E_NOT_AUTHORIZED

\* C14 witness of the closed vote: past the deadline, a verifier with voting
\* power that has not voted is turned down
C14_WitnessClosed ==
    \E t \in DOMAIN tasks, v \in DOMAIN verifiers :
        /\ ~tasks[t].is_finalized /\ now > tasks[t].voting_ends_at
        /\ v \notin DOMAIN tasks[t].voters
        /\ VotingPower(verifiers[v].stake, verifiers[v].reputation_score) > 0
        /\ CastVoteAbort(v, v, t) = E_VOTING_CLOSED

\* C15 as stated: on a finalized task, every claim_reward of a verifier whose
\* recorded vote equals the result takes floor(reward_amount * recorded
\* voting power / total_voting_power) out of the reward pool and raises the
\* verifier's reputation by 10, capped at 1000.
C15_Original ==
    [][\A a \in Addr, v \in DOMAIN verifiers, t \in DOMAIN tasks :
          (/\ claim_reward(a, v, t)
           /\ tasks[t].voters[verifiers[v].address].vote = tasks[t].result)
          => LET share == (tasks[t].reward_amount
                             * tasks[t].voters[verifiers[v].address].voting_power)
                          \div tasks[t].total_voting_power
                 score == verifiers[v].reputation_score
             IN /\ network'.reward_pool = network.reward_pool - share
                /\ verifiers'[v].reputation_score =
                       IF score + 10 > 1000 THEN 1000 ELSE score + 10]_vars

\* C15, amended: on a finalized task, a claim_reward of a verifier whose
\* recorded vote equals the result takes floor(reward_amount * recorded
\* voting power / total_voting_power) out of the reward pool and raises the
\* verifier's reputation by 10, capped at 1000, when that share is positive
\* and the pool holds it; otherwise the pool and the reputation stay as they
\* are.
C15_MajorityClaim ==
    [][\A a \in Addr, v \in DOMAIN verifiers, t \in DOMAIN tasks :
          (/\ claim_reward(a, v, t)
           /\ tasks[t].voters[verifiers[v].address].vote = tasks[t].result)
          => LET share == (tasks[t].reward_amount
                             * tasks[t].voters[verifiers[v].address].voting_power)
                          \div tasks[t].total_voting_power
                 score == verifiers[v].reputation_score
             IN /\ tasks[t].is_finalized
                /\ IF share > 0 /\ network.reward_pool >= share
                   THEN /\ network'.reward_pool = network.reward_pool - share
                        /\ verifiers'[v].reputation_score =
                               IF score + 10 > 1000 THEN 1000 ELSE score + 10
                   ELSE /\ network'.reward_pool = network.reward_pool
                        /\ verifiers'[v].reputation_score = score]_vars

\* C15 witness: a verifier at reputation 1000 has been paid its share of the
\* task's reward, 4 of 8, for the first time and stays at 1000
C15_Witness ==
    \E v \in DOMAIN verifiers, t \in DOMAIN tasks :
        /\ tasks[t].is_finalized
        /\ verifiers[v].address \in DOMAIN tasks[t].voters
        /\ tasks[t].voters[verifiers[v].address].vote = tasks[t].result
        /\ verifiers[v].total_verifications = MaxHistory + 1
        /\ verifiers[v].successful_verifications = MaxHistory + 1
        /\ verifiers[v].reputation_score = 1000
        /\ RewardShare(tasks[t], verifiers[v].address) = 4
        /\ network.reward_pool = 10 - 4

\* C15 witness of the raise: a verifier has been paid and has gone from
\* reputation 990 to 1000
C15_WitnessRaised ==
    \E v \in DOMAIN verifiers, t \in DOMAIN tasks :
        /\ tasks[t].is_finalized
        /\ verifiers[v].address \in DOMAIN tasks[t].voters
        /\ tasks[t].voters[verifiers[v].address].vote = tasks[t].result
        /\ tasks[t].voters[verifiers[v].address].voting_power = 19
        /\ verifiers[v].successful_verifications = MaxHistory
        /\ verifiers[v].reputation_score = 1000

\* C15 witness of the claim that pays nothing: a majority voter whose share
\* is 0 has claimed and is at the reputation it had
C15_WitnessUnpaid ==
    \E v \in DOMAIN verifiers, t \in DOMAIN tasks :
        /\ tasks[t].is_finalized
        /\ verifiers[v].address \in DOMAIN tasks[t].voters
        /\ tasks[t].voters[verifiers[v].address].vote = tasks[t].result
        /\ RewardShare(tasks[t], verifiers[v].address) = 0
        /\ verifiers[v].total_verifications > MaxHistory
        /\ verifiers[v].successful_verifications = 0
        /\ verifiers[v].reputation_score = 100

\* C15 witness of the pool that has run short: a majority voter has claimed
\* more often than it was paid
C15_WitnessShort ==
    \E v \in DOMAIN verifiers, t \in DOMAIN tasks :
        /\ tasks[t].is_finalized
        /\ verifiers[v].address \in DOMAIN tasks[t].voters
        /\ tasks[t].voters[verifiers[v].address].vote = tasks[t].result
        /\ RewardShare(tasks[t], verifiers[v].address) > network.reward_pool
        /\ verifiers[v].total_verifications = MaxHistory + 3
        /\ verifiers[v].successful_verifications = MaxHistory + 2

\* C16: on a finalized task, a claim_reward of a verifier whose recorded vote
\* differs from the result leaves the reward pool as it is and lowers the
\* verifier's reputation by 20, to 0 when it is below 20; claim_reward on a
\* task that is not finalized aborts with E_VOTING_CLOSED, and by a verifier
\* without a vote on the task with E_NOT_AUTHORIZED, so neither is a step.
C16_MinorityClaim ==
    /\ [](\A v \in DOMAIN verifiers, t \in DOMAIN tasks :
             LET a == verifiers[v].address IN
             /\ ~tasks[t].is_finalized =>
                    /\ ClaimRewardAbort(a, v, t) = E_VOTING_CLOSED
                    /\ ~ENABLED claim_reward(a, v, t)
             /\ tasks[t].is_finalized /\ a \notin DOMAIN tasks[t].voters =>
                    /\ ClaimRewardAbort(a, v, t) = E_NOT_AUTHORIZED
                    /\ ~ENABLED claim_reward(a, v, t))
    /\ [][\A a \in Addr, v \in DOMAIN verifiers, t \in DOMAIN tasks :
             (/\ claim_reward(a, v, t)
              /\ tasks[t].voters[verifiers[v].address].vote # tasks[t].result)
             => LET score == verifiers[v].reputation_score IN
                /\ tasks[t].is_finalized
                /\ network'.reward_pool = network.reward_pool
                /\ verifiers'[v].stake = verifiers[v].stake
                /\ verifiers'[v].reputation_score =
                       IF score < 20 THEN 0 ELSE score - 20]_vars

\* C16 witness: a minority voter at reputation 1000 has claimed, is at 980
\* and the pool still holds the 10 paid for the task
C16_Witness ==
    \E v \in DOMAIN verifiers, t \in DOMAIN tasks :
        /\ tasks[t].is_finalized
        /\ verifiers[v].address \in DOMAIN tasks[t].voters
        /\ tasks[t].voters[verifiers[v].address].vote # tasks[t].result
        /\ verifiers[v].total_verifications = MaxHistory + 1
        /\ verifiers[v].reputation_score = 1000 - 20
        /\ network.reward_pool = 10

\* C16 witness of the floor: a minority voter slashed to reputation 0 has
\* claimed and is at 0
C16_WitnessFloor ==
    \E v \in DOMAIN verifiers, t \in DOMAIN tasks :
        /\ tasks[t].is_finalized
        /\ verifiers[v].address \in DOMAIN tasks[t].voters
        /\ tasks[t].voters[verifiers[v].address].vote # tasks[t].result
        /\ verifiers[v].total_verifications > MaxHistory
        /\ ~verifiers[v].is_active
        /\ verifiers[v].reputation_score = 0

\* C16 witness of the claims turned down: a voter on a task past its
\* deadline and not finalized, and next to it a verifier without a vote
C16_WitnessFails ==
    \E v \in DOMAIN verifiers, w \in DOMAIN verifiers, t \in DOMAIN tasks :
        /\ now > tasks[t].voting_ends_at
        /\ ~tasks[t].is_finalized
        /\ v \in DOMAIN tasks[t].voters
        /\ w \notin DOMAIN tasks[t].voters
        /\ ClaimRewardAbort(v, v, t) = E_VOTING_CLOSED

\* C19: the reputation_score of every Verifier and of every AIOracle is in
\* 0..1000 in every state reached by claims, oracle reputation updates,
\* submissions with their decay, slashing and deactivation.
C19_ReputationRange ==
    /\ \A v \in DOMAIN verifiers :
           verifiers[v].reputation_score >= 0
               /\ verifiers[v].reputation_score <= 1000
    /\ \A o \in DOMAIN oracles :
           oracles[o].reputation_score >= 0
               /\ oracles[o].reputation_score <= 1000

\* C19 witness: a verifier at 1000 that has been paid a claim past its 90,
\* and an active oracle at 0 that has submitted past its 16 submissions
C19_Witness ==
    \E v \in DOMAIN verifiers, o \in DOMAIN oracles :
        /\ verifiers[v].reputation_score = 1000
        /\ verifiers[v].successful_verifications > 90
        /\ oracles[o].is_active
        /\ oracles[o].reputation_score = 0
        /\ oracles[o].total_submissions > 16

\* C19 witness of the other ends: an active verifier at 0 with the task
\* finalized, and an oracle at 1000 updated past its 25 accurate submissions
C19_WitnessEnds ==
    \E v \in DOMAIN verifiers, o \in DOMAIN oracles, t \in DOMAIN tasks :
        /\ tasks[t].is_finalized
        /\ verifiers[v].is_active
        /\ verifiers[v].reputation_score = 0
        /\ oracles[o].reputation_score = 1000
        /\ oracles[o].accurate_submissions > 25

\* C19 witness of the floor of a claim: a slashed minority voter, at 0, has
\* claimed, and an oracle at 20 has been found wrong and is at 0
C19_WitnessFloor ==
    \E v \in DOMAIN verifiers, o \in DOMAIN oracles, t \in DOMAIN tasks,
       r \in DOMAIN results :
        /\ tasks[t].is_finalized
        /\ v \in DOMAIN tasks[t].voters
        /\ tasks[t].voters[v].vote # tasks[t].result
        /\ verifiers[v].total_verifications > MaxHistory
        /\ verifiers[v].reputation_score = 0
        /\ results[r].is_finalized
        /\ o \in DOMAIN results[r].submissions
        /\ results[r].submissions[o].weight = 20
        /\ results[r].submissions[o].is_ai_generated # results[r].final_verdict
        /\ oracles[o].is_active
        /\ oracles[o].reputation_score = 0

\* C21: a submit_detection that commits at time now writes to the oracle's
\* reputation, and records as the submission's weight and adds to
\* total_ai_votes or total_human_votes, the reputation less 10 for every
\* whole decay period (30 days, 60 clock units) in now - last_active, and 0
\* when that is not positive, if now - last_active exceeds the period, and
\* the reputation as it is if not.
C21_DecayOnSubmit ==
    [][\A o \in DOMAIN oracles, r \in DOMAIN results :
          (o \notin DOMAIN results[r].submissions
               /\ o \in DOMAIN results'[r].submissions)
          => LET gap == now - oracles[o].last_active
                 score == oracles[o].reputation_score
                 less == 10 * (gap \div 60)
                 decayed == IF gap > 60
                            THEN IF score - less > 0 THEN score - less ELSE 0
                            ELSE score
                 sub == results'[r].submissions[o]
             IN /\ oracles'[o].reputation_score = decayed
                /\ sub.weight = decayed
                /\ results'[r].total_ai_votes - results[r].total_ai_votes =
                       IF sub.is_ai_generated THEN decayed ELSE 0
                /\ results'[r].total_human_votes - results[r].total_human_votes =
                       IF sub.is_ai_generated THEN 0 ELSE decayed]_vars

\* C21 witness: an oracle at 1000 has submitted two periods after it was
\* last active, with weight 980
C21_Witness ==
    \E o \in DOMAIN oracles, r \in DOMAIN results :
        /\ o \in DOMAIN results[r].submissions
        /\ oracles[o].last_active = 120
        /\ oracles[o].total_submissions = 26
        /\ results[r].submissions[o].weight = 980

\* C21 witness of the gap of exactly one period: the oracle at 500 has
\* submitted with weight 500
C21_WitnessNoDecay ==
    \E o \in DOMAIN oracles, r \in DOMAIN results :
        /\ o \in DOMAIN results[r].submissions
        /\ oracles[o].last_active = 60
        /\ oracles[o].total_submissions = 1
        /\ results[r].submissions[o].weight = 500

\* C21 witness of the floor: the oracle at 20 has submitted two periods
\* after it was last active, with weight 0
C21_WitnessFloor ==
    \E o \in DOMAIN oracles, r \in DOMAIN results :
        /\ o \in DOMAIN results[r].submissions
        /\ oracles[o].last_active = 120
        /\ oracles[o].total_submissions = 17
        /\ results[r].submissions[o].weight = 0

\* C21 witness of the whole periods: a gap of one period and three clock
\* units costs 10
C21_WitnessOnePeriod ==
    \E o \in DOMAIN oracles, r \in DOMAIN results :
        /\ o \in DOMAIN results[r].submissions
        /\ oracles[o].last_active = 63
        /\ results[r].submissions[o].weight = 490

\* C22 as stated: a step that advances the clock changes no oracle, and
\* every step that writes an oracle whose decay is pending (its reputation
\* differs from the decayed one) applies that decay: the reputation written
\* is the decayed one, or the decayed one after the step's +20, -30 or
\* reset to 0.
C22_Original ==
    [][\A o \in DOMAIN oracles :
          LET score == oracles[o].reputation_score
              decayed == apply_reputation_decay(oracles[o], now)
          IN
          /\ now' # now => oracles'[o] = oracles[o]
          /\ oracles'[o] # oracles[o] /\ decayed # score =>
                 oracles'[o].reputation_score \in
                     {decayed, 0,
                      IF decayed + 20 > 1000 THEN 1000 ELSE decayed + 20,
                      IF decayed < 30 THEN 0 ELSE decayed - 30}]_vars

\* C22, amended: a step that advances the clock changes no oracle; the
\* pending decay is applied by the oracle's next submit_detection that
\* commits, which also sets last_active to now; every other write of an
\* oracle (update_oracle_reputation, deactivation) writes the reputation from
\* the one that has not decayed and leaves last_active, so the decay stays
\* pending.
C22_LazyDecay ==
    [][\A o \in DOMAIN oracles :
          LET score == oracles[o].reputation_score IN
          /\ now' # now => oracles'[o] = oracles[o]
          /\ oracles'[o].total_submissions # oracles[o].total_submissions =>
                 /\ oracles'[o].reputation_score =
                        apply_reputation_decay(oracles[o], now)
                 /\ oracles'[o].last_active = now
          /\ (/\ oracles'[o] # oracles[o]
              /\ oracles'[o].total_submissions = oracles[o].total_submissions) =>
                 /\ oracles'[o].last_active = oracles[o].last_active
                 /\ oracles'[o].reputation_score \in
                        {0,
                         IF score + 20 > 1000 THEN 1000 ELSE score + 20,
                         IF score < 30 THEN 0 ELSE score - 30}]_vars

\* C22 witness: two periods after its submission an oracle that has been
\* updated is at 520, not at 500
C22_Witness ==
    \E o \in DOMAIN oracles, r \in DOMAIN results :
        /\ o \in DOMAIN results[r].submissions
        /\ results[r].submissions[o].weight = 500
        /\ now - oracles[o].last_active = 120
        /\ oracles[o].accurate_submissions = 1
        /\ oracles[o].reputation_score = 520
        /\ apply_reputation_decay(oracles[o], now) = 500

\* C23: update_oracle_reputation fails on a result that is not finalized and
\* for an oracle with no submission on it, and it adjusts an oracle once for
\* a finalized result it submitted to: the reputation is the weight of the
\* submission, or that weight after one +20 (capped at 1000) or one -30
\* (floored at 0) as the submission agrees with the verdict or not, or the 0
\* of a deactivation with at most the one adjustment after it, and no more
\* accurate submissions are counted than submissions.
C23_Original ==
    \A o \in DOMAIN oracles, r \in DOMAIN results :
        LET submitted == oracles[o].address \in DOMAIN results[r].submissions
        IN
        /\ ~results[r].is_finalized =>
               UpdateOracleReputationAbort(o, r) = E_CONSENSUS_NOT_REACHED
        /\ results[r].is_finalized /\ ~submitted =>
               UpdateOracleReputationAbort(o, r) = E_NOT_AUTHORIZED
        /\ results[r].is_finalized /\ submitted =>
               LET s == results[r].submissions[oracles[o].address]
                   agrees == s.is_ai_generated = results[r].final_verdict
                   once(w) == IF agrees
                              THEN (IF w + 20 > 1000 THEN 1000 ELSE w + 20)
                              ELSE (IF w < 30 THEN 0 ELSE w - 30)
               IN
               /\ oracles[o].reputation_score
                      \in {s.weight, once(s.weight), 0, once(0)}
               /\ oracles[o].accurate_submissions
                      <= oracles[o].total_submissions

\* C39: an oracle's accurate_submissions are no more than its
\* total_submissions, and a verifier's successful_verifications no more than
\* its total_verifications.
C39_Original ==
    /\ \A o \in DOMAIN oracles :
           oracles[o].accurate_submissions <= oracles[o].total_submissions
    /\ \A v \in DOMAIN verifiers :
           verifiers[v].successful_verifications
               <= verifiers[v].total_verifications

\* the verifiers' half of C39, which holds: claim_reward counts a successful
\* verification only together with a verification
C39_VerifierRate ==
    \A v \in DOMAIN verifiers :
        verifiers[v].successful_verifications
            <= verifiers[v].total_verifications

\* the submissions accepted on r1 and r2 can come from one set of
\* submit_detection calls: an oracle that is on both has given the same
\* verdict with the same weight
SameCalls(r1, r2) ==
    \A o \in DOMAIN results[r1].submissions
            \cap DOMAIN results[r2].submissions :
        results[r1].submissions[o] = results[r2].submissions[o]

\* C40: the outcome of a DetectionResult does not depend on the order of a
\* given set of submit_detection calls.  Two results that have received the
\* calls of one set in two orders (each result is finalized, so that the
\* calls of the set it has not accepted fail on it) have the same verdict,
\* and when one of them has accepted all the calls of the other it is
\* finalized if the other is.
C40_Original ==
    \A r1 \in DOMAIN results, r2 \in DOMAIN results :
        SameCalls(r1, r2) =>
            /\ (results[r1].is_finalized /\ results[r2].is_finalized)
                   => results[r1].final_verdict = results[r2].final_verdict
            /\ (/\ results[r1].is_finalized
                /\ DOMAIN results[r1].submissions
                       \subseteq DOMAIN results[r2].submissions
                /\ results[r2].submission_count >= MIN_ORACLES_FOR_CONSENSUS)
                   => results[r2].is_finalized

\* C40, amended: two results that have accepted the same submissions, in
\* whatever order, have the same finalized flag and the same final verdict.
C40_AcceptedDecide ==
    \A r1 \in DOMAIN results, r2 \in DOMAIN results :
        results[r1].submissions = results[r2].submissions
            => (/\ results[r1].is_finalized = results[r2].is_finalized
                /\ results[r1].final_verdict = results[r2].final_verdict)

\* two results have accepted the same three submissions, not all of one
\* verdict, and are finalized
C40_Witness ==
    \E r1 \in DOMAIN results, r2 \in DOMAIN results :
        /\ r1 # r2
        /\ results[r1].submissions = results[r2].submissions
        /\ results[r1].submission_count = MIN_ORACLES_FOR_CONSENSUS
        /\ \E o1 \in DOMAIN results[r1].submissions,
              o2 \in DOMAIN results[r1].submissions :
               results[r1].submissions[o1].is_ai_generated
                   # results[r1].submissions[o2].is_ai_generated
        /\ results[r1].is_finalized
        /\ results[r2].is_finalized

--------------------------------------------------------------------------
(* Claims on the access control *)

\* the timestamps is_access_valid is asked about
Times == 0..(MaxClockAC + 2)

\* C7: once revoke_access has gone through with a grant, is_access_valid is
\* false of it for every timestamp and stays so whatever is done next; of a
\* grant that is not revoked it is true exactly when the grant has no expiry
\* (expires_at = 0) or the timestamp is <= expires_at.
C7_RevokedNeverValid ==
    /\ [](\A g \in DOMAIN grants : \A t \in Times :
             IF grants[g].is_revoked
             THEN ~is_access_valid(grants[g], t)
             ELSE is_access_valid(grants[g], t) <=>
                      (grants[g].expires_at = 0 \/ t <= grants[g].expires_at))
    /\ [][/\ \A a \in Addr, p \in ContentIds, g \in GrantIds :
                 revoke_access(a, p, g) => grants'[g].is_revoked
          /\ \A g \in DOMAIN grants :
                 grants[g].is_revoked =>
                     g \in DOMAIN grants' /\ grants'[g].is_revoked]_vars

\* C7 witness: a grant without expiry, issued before the clock advanced, is
\* revoked
C7_Witness ==
    \E g \in DOMAIN grants :
        /\ grants[g].is_revoked
        /\ grants[g].expires_at = 0
        /\ now > 0
        /\ \A t \in Times : ~is_access_valid(grants[g], t)

\* the role set of a policy that a role names
RoleSet(policy, role) ==
    IF role = ROLE_ADMIN THEN policy.admins
    ELSE IF role = ROLE_VIEWER THEN policy.viewers
    ELSE IF role = ROLE_VERIFIER THEN policy.verifiers
    ELSE {}

\* C31: revoke_access is enabled only for the owner of the policy the grant
\* was issued under and for the address that issued the grant; a step that
\* revokes a grant leaves its holder out of that policy's set for the
\* grant's role; where revoke_access fails nothing changes.
C31_Original ==
    /\ [](\A a \in Addr, p \in DOMAIN policies, g \in DOMAIN grants :
            /\ ENABLED revoke_access(a, p, g) =>
                   \/ a = policies[grants[g].policy_id].owner
                   \/ a = grants[g].granted_by
            /\ RevokeAccessAbort(a, p, g) # OK =>
                   ~ENABLED revoke_access(a, p, g))
    /\ [][\A g \in DOMAIN grants :
            grants'[g].is_revoked /\ ~grants[g].is_revoked =>
                grants[g].granted_to \notin
                    RoleSet(policies'[grants[g].policy_id], grants[g].role)]_vars

\* C32: grant_access fails with E_NOT_AUTHORIZED for a caller who is neither
\* the owner of the policy nor one of its admins, and with E_INVALID_ROLE for
\* a role other than ADMIN, VIEWER and VERIFIER; a grant is issued only for
\* one of these three roles, not revoked, with its holder in the matching
\* role set of the policy, and the role sets change only with the grant.
C32_Original ==
    /\ [](\A a \in Addr, p \in DOMAIN policies, role \in Roles :
            LET authorized == a = policies[p].owner \/ a \in policies[p].admins
                granted == role \in {ROLE_ADMIN, ROLE_VIEWER, ROLE_VERIFIER}
            IN
            /\ ~authorized => GrantAccessAbort(a, p, role) = E_NOT_AUTHORIZED
            /\ authorized /\ ~granted =>
                   GrantAccessAbort(a, p, role) = E_INVALID_ROLE
            /\ authorized /\ granted => GrantAccessAbort(a, p, role) = OK
            /\ GrantAccessAbort(a, p, role) # OK =>
                   \A to \in Addr, d \in Durations :
                       ~ENABLED grant_access(a, p, to, role, d))
    /\ [][\A g \in DOMAIN grants' \ DOMAIN grants :
            LET p == grants'[g].policy_id IN
            /\ grants'[g].role \in {ROLE_ADMIN, ROLE_VIEWER, ROLE_VERIFIER}
            /\ ~grants'[g].is_revoked
            /\ grants'[g].granted_to \in RoleSet(policies'[p], grants'[g].role)
            /\ \/ grants'[g].granted_by = policies[p].owner
               \/ grants'[g].granted_by \in policies[p].admins]_vars

\* C33: a caller who is neither the owner of a policy nor one of its admins
\* cannot change its role sets or its conditions: grant_access and
\* add_condition fail for this caller, and a revoke_access that this caller
\* gets through leaves the role sets of the policy as they are.
C33_Original ==
    \A a \in Addr, p \in DOMAIN policies :
        ~(a = policies[p].owner \/ a \in policies[p].admins) =>
            /\ \A role \in Roles :
                   GrantAccessAbort(a, p, role) = E_NOT_AUTHORIZED
            /\ AddConditionAbort(a, p) = E_NOT_AUTHORIZED
            /\ \A g \in DOMAIN grants :
                   RevokeAccessAbort(a, p, g) = OK =>
                       RemoveFromRoleSet(policies[p], grants[g]) = policies[p]

\* a former admin, whose own grant the owner has revoked, is about to take
\* out of the viewers the holder of a grant issued while an admin
C33_WitnessFormerAdmin ==
    \E a \in Addr, p \in DOMAIN policies, g1, g2 \in DOMAIN grants :
        /\ a # policies[p].owner
        /\ a \notin policies[p].admins
        /\ grants[g1].policy_id = p
        /\ grants[g1].role = ROLE_ADMIN
        /\ grants[g1].granted_to = a
        /\ grants[g1].is_revoked
        /\ grants[g2].policy_id = p
        /\ grants[g2].granted_by = a
        /\ grants[g2].role = ROLE_VIEWER
        /\ grants[g2].granted_to \in policies[p].viewers
        /\ ENABLED revoke_access(a, p, g2)

\* the content ids of the policies that exist
PolicyContents == {policies[p].content_id : p \in DOMAIN policies}

\* C34: create_policy fails for a content id that has a policy and is not
\* enabled for it; the indexed content ids are those of the policies that
\* exist, one policy each, and policy_count is their number; a policy that
\* exists keeps its content id and its owner, and index and count change
\* only by the creation of a policy for a content id that had none.
C34_OnePolicyPerContent ==
    /\ [](/\ accessRegistry.policy_index = PolicyContents
          /\ accessRegistry.policy_count
                 = Cardinality(accessRegistry.policy_index)
          /\ accessRegistry.policy_count = Cardinality(DOMAIN policies)
          /\ \A c \in ContentIds :
                 c \in PolicyContents =>
                     /\ CreatePolicyAbort(c) # OK
                     /\ \A a \in Addr, b \in BOOLEAN :
                            ~ENABLED create_policy(a, c, b))
    /\ [][/\ \A p \in DOMAIN policies :
                 /\ p \in DOMAIN policies'
                 /\ policies'[p].content_id = policies[p].content_id
                 /\ policies'[p].owner = policies[p].owner
          /\ accessRegistry' # accessRegistry =>
                 \E c \in ContentIds \ PolicyContents :
                     /\ accessRegistry'.policy_index
                            = accessRegistry.policy_index \cup {c}
                     /\ accessRegistry'.policy_count
                            = accessRegistry.policy_count + 1
                     /\ DOMAIN policies' = DOMAIN policies \cup {c}]_vars

\* C34 witness: both content ids have a policy, of different owners, and a
\* further create_policy is turned down for either
C34_Witness ==
    /\ accessRegistry.policy_count = 2
    /\ policies["c1"].owner # policies["c2"].owner
    /\ \A c \in ContentIds : CreatePolicyAbort(c) = EFieldAlreadyExists
    /\ \A a \in Addr, c \in ContentIds, b \in BOOLEAN :
           ~ENABLED create_policy(a, c, b)

\* C35: after admin_emergency_lockdown of a policy the policy is private, its
\* admins, viewers and verifiers are empty, and is_access_valid is false of
\* every grant issued under the policy.
C35_Original ==
    [][\A p \in DOMAIN policies :
          admin_emergency_lockdown(p) =>
              /\ ~is_public(policies'[p])
              /\ policies'[p].admins = {}
              /\ policies'[p].viewers = {}
              /\ policies'[p].verifiers = {}
              /\ \A g \in DOMAIN grants :
                     grants[g].policy_id = p =>
                         ~is_access_valid(grants'[g], now')]_vars

--------------------------------------------------------------------------
(* Claims on the provenance registry *)

\* C8: the trust score of every content proof is within 0..100 in every
\* state, whatever verifications and admin overrides are applied, and
\* record_verification and admin_override_trust_score reject a score > 100.
C8_TrustScoreRange ==
    /\ \A id \in DOMAIN proofs :
           proofs[id].trust_score >= 0 /\ proofs[id].trust_score <= 100
    /\ \A sc \in 101..110 :
           /\ RecordVerificationAbort(sc) = E_INVALID_METADATA
           /\ AdminOverrideTrustScoreAbort(sc) = E_INVALID_METADATA

\* C8 witness: a proof with a verification recorded whose score is at the
\* upper end of the range
C8_Witness ==
    \E id \in DOMAIN proofs :
        /\ proofs[id].verification_count >= 1
        /\ proofs[id].trust_score = 100

\* the hashes of the content proofs created
RegisteredHashes == {proofs[id].content_hash : id \in DOMAIN proofs}

\* C9: is_content_registered is true of exactly the hashes register_content
\* went through with, content_count is their number, and a hash that is
\* registered stays registered: nothing takes it out of the index.
C9_RegisteredExactly ==
    /\ [](/\ \A h \in Hashes : is_content_registered(h) <=> h \in RegisteredHashes
          /\ get_content_count = Cardinality(RegisteredHashes)
          /\ get_content_count = Len(proofs))
    /\ [][/\ contentRegistry.content_index \subseteq contentRegistry'.content_index
          /\ \A id \in DOMAIN proofs :
                 id \in DOMAIN proofs'
                     /\ proofs'[id].content_hash = proofs[id].content_hash
          /\ \A a \in Addr, h \in Hashes :
                 register_content(a, h) =>
                     /\ ~is_content_registered(h)
                     /\ h \in contentRegistry'.content_index
                     /\ contentRegistry'.content_count = get_content_count + 1]_vars

\* C9 witness: two hashes are registered and a further registration of
\* either is turned down
C9_Witness ==
    /\ get_content_count = 2
    /\ is_content_registered(<<1>>)
    /\ is_content_registered(<<2>>)
    /\ ~is_content_registered(<< >>)
    /\ RegisterContentAbort(<<1>>) = E_CONTENT_ALREADY_REGISTERED

\* C25: register_content fails with E_INVALID_HASH on the empty hash and with
\* E_CONTENT_ALREADY_REGISTERED on the hash of a content proof that exists,
\* whoever calls it, and it is not enabled then; the index, the count and
\* the content proofs change together and only by the registration of a
\* hash that is not empty and not yet registered, which appends one proof.
C25_RegisterFails ==
    /\ [](\A h \in Hashes :
            /\ Len(h) = 0 => RegisterContentAbort(h) = E_INVALID_HASH
            /\ Len(h) > 0 /\ h \in RegisteredHashes =>
                   RegisterContentAbort(h) = E_CONTENT_ALREADY_REGISTERED
            /\ RegisterContentAbort(h) # OK =>
                   \A a \in Addr : ~ENABLED register_content(a, h))
    /\ [][(\/ contentRegistry' # contentRegistry
           \/ Len(proofs') # Len(proofs)) =>
              \E a \in Addr, h \in Hashes :
                  /\ Len(h) > 0
                  /\ h \notin RegisteredHashes
                  /\ proofs' = Append(proofs, NewContentProof(h, a))
                  /\ contentRegistry'.content_index =
                         contentRegistry.content_index \cup {h}
                  /\ contentRegistry'.content_count =
                         contentRegistry.content_count + 1]_vars

\* C25 witness: the hash one caller registered is turned down for the same
\* and for another caller, and so is the empty hash
C25_Witness ==
    /\ Len(proofs) = 1
    /\ proofs[1].creator = "a1"
    /\ proofs[1].current_owner = "a2"
    /\ RegisterContentAbort(proofs[1].content_hash)
           = E_CONTENT_ALREADY_REGISTERED
    /\ RegisterContentAbort(<< >>) = E_INVALID_HASH
    /\ \A a \in Addr : ~ENABLED register_content(a, proofs[1].content_hash)

\* C26: execute_transfer moves the owner to the recipient of the capability
\* and deletes the capability in the one step; a capability that does not
\* exist cannot be redeemed, a capability that exists is never altered, and
\* it goes only by being redeemed.
C26_SingleUse ==
    /\ [](\A a \in Addr, id \in DOMAIN proofs,
            k \in XferCapIds \ DOMAIN transferCaps :
              ~ENABLED execute_transfer(a, id, k))
    /\ [][\A k \in DOMAIN transferCaps :
            LET c == transferCaps[k]
                redeemed == \E a \in Addr, id \in DOMAIN proofs :
                                execute_transfer(a, id, k)
            IN
            /\ redeemed =>
                   /\ k \notin DOMAIN transferCaps'
                   /\ proofs'[c.content_proof_id].current_owner = c.to
            /\ k \in DOMAIN transferCaps' => transferCaps'[k] = c
            /\ k \notin DOMAIN transferCaps' => redeemed]_vars

\* C26 witness: the owner has changed and the capability that did it is gone
\* while the other capability, issued for the same transfer, is still there
\* and of no use
C26_Witness ==
    \E id \in DOMAIN proofs :
        /\ proofs[id].creator = "a1"
        /\ proofs[id].current_owner = "a2"
        /\ DOMAIN transferCaps = {"k2"}
        /\ transferCaps["k2"].from = "a1"
        /\ transferCaps["k2"].to = "a2"
        /\ now <= transferCaps["k2"].expires_at
        /\ \A a \in Addr : ~ENABLED execute_transfer(a, id, "k2")
        /\ \A a \in Addr : ~ENABLED execute_transfer(a, id, "k1")

\* C27: execute_transfer is enabled exactly when the caller is the recipient
\* of the capability, the clock is not past its expiry, the capability is
\* of this proof and its issuer is the current owner of the proof; a
\* capability is issued by the owner of its proof, in the owner's name; and
\* the owner of a proof changes only in a step that uses up a capability of
\* this proof, issued by the owner before the step to the owner after it and
\* not expired.
C27_RedeemGuard ==
    /\ [](\A a \in Addr, id \in DOMAIN proofs, k \in DOMAIN transferCaps :
            ENABLED execute_transfer(a, id, k) <=>
                /\ a = transferCaps[k].to
                /\ now <= transferCaps[k].expires_at
                /\ transferCaps[k].content_proof_id = id
                /\ transferCaps[k].from = proofs[id].current_owner)
    /\ [][/\ \A k \in DOMAIN transferCaps' \ DOMAIN transferCaps :
                 LET c == transferCaps'[k] IN
                 /\ c.content_proof_id \in DOMAIN proofs
                 /\ c.from = proofs[c.content_proof_id].current_owner
                 /\ c.expires_at >= now
                 /\ proofs' = proofs
          /\ \A id \in DOMAIN proofs :
                 /\ id \in DOMAIN proofs'
                 /\ proofs'[id].current_owner # proofs[id].current_owner =>
                        \E k \in DOMAIN transferCaps \ DOMAIN transferCaps' :
                            /\ transferCaps[k].content_proof_id = id
                            /\ transferCaps[k].from = proofs[id].current_owner
                            /\ transferCaps[k].to = proofs'[id].current_owner
                            /\ now <= transferCaps[k].expires_at]_vars

\* C27 witness: the proof has gone from a1 to a2 and back to a1 by two
\* capabilities, and a third one, issued by a2 while a2 was the owner, is
\* not expired and cannot be redeemed by its recipient
C27_Witness ==
    \E id \in DOMAIN proofs, k \in DOMAIN transferCaps :
        /\ proofs[id].current_owner = "a1"
        /\ transferCaps[k].content_proof_id = id
        /\ transferCaps[k].from = "a2"
        /\ now <= transferCaps[k].expires_at
        /\ ~ENABLED execute_transfer(transferCaps[k].to, id, k)

\* C27 witness: a capability has expired
C27_WitnessExpired ==
    \E id \in DOMAIN proofs, k \in DOMAIN transferCaps :
        /\ transferCaps[k].content_proof_id = id
        /\ transferCaps[k].from = proofs[id].current_owner
        /\ now > transferCaps[k].expires_at
        /\ ~ENABLED execute_transfer(transferCaps[k].to, id, k)

\* C28: while the transferable flag of a proof is false, before a step and
\* after it, the step does not change the owner of the proof.
C28_Original ==
    [][\A id \in DOMAIN proofs :
          (/\ ~proofs[id].transferable
           /\ id \in DOMAIN proofs'
           /\ ~proofs'[id].transferable) =>
              proofs'[id].current_owner = proofs[id].current_owner]_vars

\* C29: for a caller who is not the current owner of a proof update_metadata,
\* set_transferable and create_transfer_cap fail with E_NOT_AUTHORIZED and
\* are not enabled; for the current owner the first two are enabled, and the
\* third is while the proof is transferable; the metadata changes only by
\* the owner's update_metadata and the flag is set only by the owner's
\* set_transferable, a capability is issued only in the owner's name.
C29_OwnerOnly ==
    /\ [](\A a \in Addr, id \in DOMAIN proofs :
            IF a # proofs[id].current_owner
            THEN /\ UpdateMetadataAbort(a, id) = E_NOT_AUTHORIZED
                 /\ SetTransferableAbort(a, id) = E_NOT_AUTHORIZED
                 /\ CreateTransferCapAbort(a, id) = E_NOT_AUTHORIZED
                 /\ \A k \in MetadataKeys, v \in MetadataValues :
                        ~ENABLED update_metadata(a, id, k, v)
                 /\ \A b \in BOOLEAN : ~ENABLED set_transferable(a, id, b)
                 /\ \A k \in XferCapIds, to \in Addr, e \in Expiries :
                        ~ENABLED create_transfer_cap(a, id, k, to, e)
            ELSE /\ \A k \in MetadataKeys, v \in MetadataValues :
                        ENABLED update_metadata(a, id, k, v)
                 /\ \A b \in BOOLEAN : ENABLED set_transferable(a, id, b)
                 /\ \A k \in XferCapIds \ DOMAIN transferCaps, to \in Addr,
                       e \in Expiries :
                        ENABLED create_transfer_cap(a, id, k, to, e)
                            <=> proofs[id].transferable)
    /\ [][\A id \in DOMAIN proofs :
            LET owner == proofs[id].current_owner IN
            /\ proofs'[id].metadata # proofs[id].metadata =>
                   \E k \in MetadataKeys, v \in MetadataValues :
                       update_metadata(owner, id, k, v)
            /\ proofs'[id].transferable /\ ~proofs[id].transferable =>
                   set_transferable(owner, id, TRUE)
            /\ \A k \in DOMAIN transferCaps' \ DOMAIN transferCaps :
                   transferCaps'[k].content_proof_id = id =>
                       \E to \in Addr, e \in Expiries :
                           create_transfer_cap(owner, id, k, to, e)]_vars

\* C29 witness: after a transfer from its creator a1 to a2 the proof carries
\* metadata and is transferable, a1 is refused and a2 is not
C29_Witness ==
    \E id \in DOMAIN proofs :
        /\ proofs[id].creator = "a1"
        /\ proofs[id].current_owner = "a2"
        /\ proofs[id].transferable
        /\ proofs[id].metadata # << >>
        /\ UpdateMetadataAbort("a1", id) = E_NOT_AUTHORIZED
        /\ SetTransferableAbort("a1", id) = E_NOT_AUTHORIZED
        /\ CreateTransferCapAbort("a1", id) = E_NOT_AUTHORIZED
        /\ CreateTransferCapAbort("a2", id) = OK
        /\ ENABLED set_transferable("a2", id, FALSE)

\* C30: the trust score after verification reports on a new proof is no
\* less than the lowest score reported: after the first report it is no less
\* than that report, and a report of 85 on the proof whose one report was 90
\* leaves a score of 85 or more and a verification count of 2.
C30_Original ==
    [][\A a \in Addr, id \in DOMAIN proofs, sc \in ReportedScores :
          record_verification(a, id, sc) =>
              /\ proofs[id].verification_count = 0 =>
                     proofs'[id].trust_score >= sc
              /\ (/\ proofs[id].verification_count = 1
                  /\ proofs[id].trust_score =
                         WeightedTrustScore(NewContentProof(<<1>>, a).trust_score, 90)
                  /\ sc = 85) =>
                     /\ proofs'[id].trust_score >= 85
                     /\ proofs'[id].verification_count = 2]_vars

\* the scores of test_multiple_verifications_consensus: a proof with two
\* reports, the second of them 85 on a score of 78, is at 82
C30_Reached ==
    \E id \in DOMAIN proofs :
        /\ proofs[id].verification_count = 2
        /\ proofs[id].trust_score = WeightedTrustScore(78, 85)
        /\ proofs[id].trust_score = 82

==========================================================================
